---- MODULE Spec2Model ----
(***************************************************************************)
(* Model of scripts/analyze_kernel_trace.py: discovery of variant          *)
(* directories and trace files, the two-pass half-window selection, the    *)
(* metric derivation and the per-group aggregate writer.                   *)
(*                                                                         *)
(* Text (paths, directory names, fields of a CSV line) is a sequence of    *)
(* one-character strings, so that the regular expression, the glob, the    *)
(* substring test, float() and the number formats are computed character   *)
(* by character.  A CSV file is a record [header, rows]: header is the     *)
(* sequence of column names and each row is a function from column names   *)
(* to fields, a field being a text or None.  A Python int of any size is   *)
(* a natural number held as its digits in base 2^15, lowest first; a       *)
(* Python float is an IEEE-754 binary64 value [k, neg, m, e]: a NaN, an    *)
(* infinity, or the finite number (-1)^neg * m * 2^e with m odd or zero.   *)
(*                                                                         *)
(* The output file object is buffered: what writerow hands to it stays in  *)
(* its buffer, and the outputs of this model are shorter than that buffer, *)
(* so the header and the records reach the file when the with block of     *)
(* line 182 closes it.  A failure to write them is therefore raised by     *)
(* that close, after every file of the group was visited.                  *)
(* An output file is a record [header, rows, tail]: the whole lines it     *)
(* holds and, as UTF-8 bytes, the part of a line a failed close cut short. *)
(***************************************************************************)
EXTENDS Integers, Sequences, FiniteSets, TLC

VARIABLES
    dirs,       \* the directories of the file system (set of paths)
    files,      \* the regular files of the file system: path -> CSV content
    num_cus,    \* args.cus
    pc,         \* position of main, or of the function under study
    vqueue,     \* variant directories iter_variant_dirs has still to yield
    cur,        \* the (vdir, p, ub, b) tuple main is working on
    gqueue,     \* groups.items() still to be visited in the current variant
    group,      \* the (subdir, out_path, pending) of the open output file:
                \* pending is what its file object holds and has not written
    fqueue,     \* files of the open group still to be visited
    log,        \* what was printed to stderr, in order
    calls,      \* the calls main made to the counter and the selector
    faults,     \* number of I/O failures the environment has raised
    quota,      \* whether the device of the outputs can refuse a write
    run,        \* which run of main this is
    files1,     \* the regular files as the first run left them
    arg,        \* argument of the function under study
    ret         \* its result

vars == <<dirs, files, num_cus, pc, vqueue, cur, gqueue, group, fqueue,
          log, calls, faults, quota, run, files1, arg, ret>>

mainVars == <<dirs, files, num_cus, vqueue, cur, gqueue, group, fqueue,
              log, calls, faults, quota, run, files1>>

(***************************************************************************)
(* Characters and strings                                                  *)
(***************************************************************************)

\* The characters in use, in code-point order (str comparison order).  A
\* character outside ASCII is written as its code point: U+00A0 is a
\* no-break space, U+0660 to U+0669 are the Arabic-Indic digits, U+0966 to
\* U+096F the Devanagari digits, U+FF10 to U+FF19 the fullwidth digits, and
\* U+DC80 is the lone surrogate that os.listdir gives for a byte of a file
\* name that is not UTF-8.
Alphabet ==
    <<"\t", "\n", "\f", "\r", " ", "!", "\"", "#", "$", "%", "&", "'", "(", ")",
      "*", "+", ",", "-", ".", "/",
      "0", "1", "2", "3", "4", "5", "6", "7", "8", "9",
      ":", ";", "<", "=", ">", "?", "@",
      "A", "B", "C", "D", "E", "F", "G", "H", "I", "J", "K", "L", "M",
      "N", "O", "P", "Q", "R", "S", "T", "U", "V", "W", "X", "Y", "Z",
      "[", "\\", "]", "^", "_",
      "a", "b", "c", "d", "e", "f", "g", "h", "i", "j", "k", "l", "m",
      "n", "o", "p", "q", "r", "s", "t", "u", "v", "w", "x", "y", "z",
      "{", "|", "}", "~",
      "U+00A0",
      "U+0660", "U+0661", "U+0662", "U+0663", "U+0664",
      "U+0665", "U+0666", "U+0667", "U+0668", "U+0669",
      "U+0966", "U+0967", "U+0968", "U+0969", "U+096A",
      "U+096B", "U+096C", "U+096D", "U+096E", "U+096F",
      "U+DC80",
      "U+FF10", "U+FF11", "U+FF12", "U+FF13", "U+FF14",
      "U+FF15", "U+FF16", "U+FF17", "U+FF18", "U+FF19">>

Ord(c) == CHOOSE i \in 1..Len(Alphabet) : Alphabet[i] = c

AsciiDigits == <<"0", "1", "2", "3", "4", "5", "6", "7", "8", "9">>

ArabicIndicDigits ==
    <<"U+0660", "U+0661", "U+0662", "U+0663", "U+0664",
      "U+0665", "U+0666", "U+0667", "U+0668", "U+0669">>

DevanagariDigits ==
    <<"U+0966", "U+0967", "U+0968", "U+0969", "U+096A",
      "U+096B", "U+096C", "U+096D", "U+096E", "U+096F">>

FullwidthDigits ==
    <<"U+FF10", "U+FF11", "U+FF12", "U+FF13", "U+FF14",
      "U+FF15", "U+FF16", "U+FF17", "U+FF18", "U+FF19">>

\* The decimal digits of Unicode (category Nd) among the characters, each
\* script from zero to nine.
DigitScripts == {AsciiDigits, ArabicIndicDigits, DevanagariDigits, FullwidthDigits}

\* \d of a str pattern, str.isdecimal
Digits == {s[i] : s \in DigitScripts, i \in 1..10}

\* The value int() and float() give a decimal digit
DigitVal(c) == (CHOOSE i \in 1..10 : \E s \in DigitScripts : s[i] = c) - 1

\* str.isspace among the characters
WhiteSpace == {"\t", "\n", "\f", "\r", " ", "U+00A0"}

\* A character that UTF-8 cannot encode
Surrogates == {"U+DC80"}

\* The code point of the i-th character of Alphabet (the grave accent, 96,
\* is not among them)
CodeAt(i) ==
    IF i <= 4 THEN <<9, 10, 12, 13>>[i]
    ELSE IF i <= 68 THEN i + 27
    ELSE IF i <= 98 THEN i + 28
    ELSE IF i = 99 THEN 160
    ELSE IF i <= 109 THEN 1632 + (i - 100)
    ELSE IF i <= 119 THEN 2406 + (i - 110)
    ELSE IF i = 120 THEN 56448
    ELSE 65296 + (i - 121)

\* ord(c)
CodePoint(c) == CodeAt(Ord(c))

\* The bytes UTF-8 makes of the code point n (below 65536, no surrogate)
Utf8Of(n) ==
    IF n < 128 THEN <<n>>
    ELSE IF n < 2048 THEN <<192 + (n \div 64), 128 + (n % 64)>>
    ELSE <<224 + (n \div 4096), 128 + ((n \div 64) % 64), 128 + (n % 64)>>

\* c.encode("utf-8")
Utf8(c) == Utf8Of(CodePoint(c))

\* y, with x evaluated first.  TLC evaluates an argument where the operator
\* first uses it; evaluating it on entry keeps nested evaluations shallow.
Eager(x, y) == CASE x = x -> y

\* F(v), with v evaluated once and first: a value that is used more than once
\* is named this way.
With(v, F(_)) == CASE v = v -> F(v)

(***************************************************************************)
(* Natural numbers of any size                                             *)
(*                                                                         *)
(* The 53-bit significands of floats and the powers of ten exceed the      *)
(* integers TLC computes with, so a natural number is kept as the sequence *)
(* of its digits in base 2^15, least significant first, without leading    *)
(* zero digits (zero is the empty sequence).                               *)
(***************************************************************************)

LimbBits == 15

LimbBase == 2 ^ LimbBits

RECURSIVE BitLenSmall(_)
BitLenSmall(n) == IF n = 0 THEN 0 ELSE 1 + BitLenSmall(n \div 2)

RECURSIVE TrailingZerosSmall(_)
TrailingZerosSmall(n) == IF n % 2 = 1 THEN 0 ELSE 1 + TrailingZerosSmall(n \div 2)

BigZero == << >>

BigOne == <<1>>

\* a without its leading zero digits
BigTrim(a) ==
    Eager(a,
        IF a = << >> \/ a[Len(a)] # 0 THEN a
        ELSE SubSeq(a, 1, CHOOSE i \in 0..Len(a) :
                              /\ i = 0 \/ a[i] # 0
                              /\ \A j \in (i + 1)..Len(a) : a[j] = 0))

RECURSIVE BigOfInt(_)
BigOfInt(n) ==
    IF n = 0 THEN << >> ELSE <<n % LimbBase>> \o BigOfInt(n \div LimbBase)

LimbAt(a, i) == IF i <= Len(a) THEN a[i] ELSE 0

\* a + b: the carry into digit i comes from the nearest lower digit whose
\* sum is not LimbBase - 1.
BigAdd(a, b) ==
    Eager(<<a, b>>,
        LET n == IF Len(a) > Len(b) THEN Len(a) ELSE Len(b)
            s == [i \in 1..n |-> LimbAt(a, i) + LimbAt(b, i)]
            carry(i) == \E j \in 1..(i - 1) :
                            /\ s[j] >= LimbBase
                            /\ \A k \in (j + 1)..(i - 1) : s[k] = LimbBase - 1
        IN  [i \in 1..(IF carry(n + 1) THEN n + 1 ELSE n) |->
                IF i = n + 1 THEN 1
                ELSE (s[i] + (IF carry(i) THEN 1 ELSE 0)) % LimbBase])

\* a - b for a >= b
BigSub(a, b) ==
    Eager(<<a, b>>,
        LET d == [i \in 1..Len(a) |-> a[i] - LimbAt(b, i)]
            borrow(i) == \E j \in 1..(i - 1) :
                             /\ d[j] < 0
                             /\ \A k \in (j + 1)..(i - 1) : d[k] = 0
        IN  BigTrim([i \in 1..Len(a) |->
                        (d[i] - (IF borrow(i) THEN 1 ELSE 0) + LimbBase) % LimbBase]))

\* -1, 0 or 1 as a < b, a = b or a > b
BigCmp(a, b) ==
    IF Len(a) # Len(b) THEN (IF Len(a) < Len(b) THEN -1 ELSE 1)
    ELSE IF a = b THEN 0
    ELSE LET i == CHOOSE i \in 1..Len(a) :
                      a[i] # b[i] /\ \A j \in (i + 1)..Len(a) : a[j] = b[j]
         IN  IF a[i] < b[i] THEN -1 ELSE 1

\* a * k for 0 <= k < LimbBase
BigMulSmall(a, k) ==
    Eager(<<a, k>>,
        BigTrim(BigAdd([i \in 1..Len(a) |-> (a[i] * k) % LimbBase],
                       <<0>> \o [i \in 1..Len(a) |-> (a[i] * k) \div LimbBase])))

\* a * LimbBase^k
LimbShift(a, k) ==
    Eager(<<a, k>>,
        IF a = << >> THEN << >> ELSE [i \in 1..k |-> 0] \o a)

RECURSIVE BigMul(_, _)
BigMul(a, b) ==
    Eager(<<a, b>>,
        IF a = << >> \/ b = << >> THEN << >>
        ELSE IF Len(b) = 1 THEN BigMulSmall(a, b[1])
        ELSE LET h == Len(b) \div 2
             IN  BigAdd(BigMul(a, BigTrim(SubSeq(b, 1, h))),
                        LimbShift(BigMul(a, SubSeq(b, h + 1, Len(b))), h)))

\* int.bit_length()
BigBitLen(a) ==
    Eager(a,
        IF a = << >> THEN 0 ELSE LimbBits * (Len(a) - 1) + BitLenSmall(a[Len(a)]))

\* a << s
BigShl(a, s) ==
    Eager(<<a, s>>,
        LimbShift(BigMulSmall(a, 2 ^ (s % LimbBits)), s \div LimbBits))

\* a >> s
BigShr(a, s) ==
    Eager(<<a, s>>,
        LET ls == s \div LimbBits
            r  == s % LimbBits
        IN  BigTrim([i \in 1..(Len(a) - ls) |->
                        a[i + ls] \div (2 ^ r)
                        + (LimbAt(a, i + ls + 1) % (2 ^ r)) * (2 ^ (LimbBits - r))]))

\* bit i of a, bit 0 the least significant
BigBit(a, i) == (LimbAt(a, i \div LimbBits + 1) \div (2 ^ (i % LimbBits))) % 2

\* a % 2^s = 0
BigLowZero(a, s) ==
    /\ \A i \in 1..(s \div LimbBits) : LimbAt(a, i) = 0
    /\ LimbAt(a, s \div LimbBits + 1) % (2 ^ (s % LimbBits)) = 0

\* Number of zero bits below the lowest one bit of a > 0
BigTrailingZeros(a) ==
    Eager(a,
        LET i == CHOOSE i \in 1..Len(a) : a[i] # 0 /\ \A j \in 1..(i - 1) : a[j] = 0
        IN  LimbBits * (i - 1) + TrailingZerosSmall(a[i]))

\* The next digit of a quotient: the largest t with d * t <= r, where
\* r < d * LimbBase and the leading digit of d is at least LimbBase / 2, so
\* that the estimate from the leading digits is at most 2 too large.
QuotDigit(r, d) ==
    Eager(<<r, d>>,
        LET top  == LimbAt(r, Len(d) + 1) * LimbBase + LimbAt(r, Len(d))
            est0 == top \div d[Len(d)]
            est  == IF est0 > LimbBase - 1 THEN LimbBase - 1 ELSE est0
        IN  IF BigCmp(BigMulSmall(d, est), r) <= 0 THEN est
            ELSE IF BigCmp(BigMulSmall(d, est - 1), r) <= 0 THEN est - 1
            ELSE est - 2)

\* Long division: digit i of n is brought down to the remainder r.
RECURSIVE BigDivLimbs(_, _, _, _, _)
BigDivLimbs(n, d, i, q, r) ==
    Eager(<<n, d, i, q, r>>,
        IF i = 0 THEN [q |-> BigTrim(q), r |-> r]
        ELSE LET r2 == BigTrim(<<n[i]>> \o r)
             IN  With(QuotDigit(r2, d), LAMBDA t :
                     BigDivLimbs(n, d, i - 1, <<t>> \o q, BigSub(r2, BigMulSmall(d, t)))))

\* Division of a long dividend: the high digits are divided first and their
\* remainder is brought down in front of the low digits.
RECURSIVE BigDivSplit(_, _)
BigDivSplit(n, d) ==
    Eager(<<n, d>>,
        IF Len(n) < Len(d) THEN [q |-> BigZero, r |-> n]
        ELSE IF Len(n) < Len(d) + 3
        THEN BigDivLimbs(n, d, Len(n) - Len(d) + 1, << >>,
                         SubSeq(n, Len(n) - Len(d) + 2, Len(n)))
        ELSE LET h == (Len(n) - Len(d)) \div 2
                 x == BigDivSplit(SubSeq(n, h + 1, Len(n)), d)
                 y == BigDivSplit(BigTrim(SubSeq(n, 1, h) \o x.r), d)
             IN  [q |-> BigTrim([i \in 1..h |-> LimbAt(y.q, i)] \o x.q), r |-> y.r])

\* divmod(n, d) for d > 0
BigDivMod(n, d) ==
    Eager(<<n, d>>,
        LET s == LimbBits - BitLenSmall(d[Len(d)])
        IN  With(BigDivSplit(BigShl(n, s), BigShl(d, s)), LAMBDA x :
                [q |-> x.q, r |-> BigShr(x.r, s)]))

\* 10^k
RECURSIVE BigPow10(_)
BigPow10(k) ==
    Eager(k,
        IF k = 0 THEN BigOne
        ELSE IF k % 2 = 1 THEN BigMulSmall(BigPow10(k - 1), 10)
        ELSE LET h == BigPow10(k \div 2) IN BigMul(h, h))

\* The w decimal digits of a < 10^w, as characters
RECURSIVE BigTextPad(_, _)
BigTextPad(a, w) ==
    Eager(<<a, w>>,
        IF w <= 4
        THEN LET n == LimbAt(a, 1) + LimbAt(a, 2) * LimbBase
             IN  [i \in 1..w |-> AsciiDigits[((n \div (10 ^ (w - i))) % 10) + 1]]
        ELSE With(BigDivMod(a, BigPow10(w \div 2)), LAMBDA x :
                 BigTextPad(x.q, w - w \div 2) \o BigTextPad(x.r, w \div 2)))

\* ds without its leading zeros
StripZeros(ds) ==
    Eager(ds,
        IF ds = << >> \/ ds[1] # "0" THEN ds
        ELSE SubSeq(ds, CHOOSE i \in 1..(Len(ds) + 1) :
                            /\ i = Len(ds) + 1 \/ ds[i] # "0"
                            /\ \A j \in 1..(i - 1) : ds[j] = "0",
                    Len(ds)))

\* The decimal digits of a natural number ("" for zero)
BigText(a) ==
    Eager(a,
        StripZeros(BigTextPad(a, BigBitLen(a) \div 3 + 1)))

(***************************************************************************)
(* Python floats: IEEE 754 binary64, round to nearest, ties to even        *)
(*                                                                         *)
(* A float is [k, neg, m, e]: k is "fin", "inf" or "nan"; a finite float   *)
(* has the value (-1)^neg * m * 2^e with m odd, or m = 0 and e = 0 for the *)
(* two zeros.                                                              *)
(***************************************************************************)

NaN == [k |-> "nan", neg |-> FALSE, m |-> BigZero, e |-> 0]

Inf(neg) == [k |-> "inf", neg |-> neg, m |-> BigZero, e |-> 0]

FZero(neg) == [k |-> "fin", neg |-> neg, m |-> BigZero, e |-> 0]

IsZero(x) == x.k = "fin" /\ x.m = BigZero

\* m * 2^e with the trailing zero bits of m moved into e.
Finite(neg, m, e) ==
    Eager(<<neg, m, e>>,
        IF m = BigZero THEN FZero(neg)
        ELSE With(BigTrailingZeros(m), LAMBDA tz :
                 [k |-> "fin", neg |-> neg, m |-> BigShr(m, tz), e |-> e + tz]))

\* Smallest exponent of a unit in the last place, largest exponent plus one,
\* and precision of binary64.
MinExp == -1074

MaxExp == 1024

Precision == 53

\* The exponent of the unit in the last place of the float nearest to
\* (n / d) * 2^e, for n > 0: with 2^(b-1) <= (n / d) * 2^e < 2^b it is
\* b - Precision, and MinExp for a subnormal.
UnitExponent(n, d, e) ==
    Eager(<<n, d, e>>,
        LET L == BigBitLen(n) - BigBitLen(d)
            b == e + L + (IF BigCmp(BigShl(n, IF L < 0 THEN -L ELSE 0),
                                    BigShl(d, IF L < 0 THEN 0 ELSE L)) >= 0
                          THEN 1 ELSE 0)
        IN  IF b - Precision > MinExp THEN b - Precision ELSE MinExp)

\* x.q + x.r / den rounded to the nearest natural number, a tie to the even one
RoundQuotient(x, den) ==
    Eager(<<x, den>>,
        LET c == BigCmp(BigMulSmall(x.r, 2), den)
        IN  IF c > 0 \/ (c = 0 /\ BigBit(x.q, 0) = 1)
            THEN BigAdd(x.q, BigOne) ELSE x.q)

\* q * 2^u, an infinity when that is beyond the largest float
FiniteOrInf(neg, q, u) ==
    Eager(<<neg, q, u>>,
        IF BigBitLen(q) + u > MaxExp THEN Inf(neg) ELSE Finite(neg, q, u))

\* The multiple of 2^u nearest to (n / d) * 2^e
RoundAt(neg, n, d, e, u) ==
    Eager(<<neg, n, d, e, u>>,
        LET den == BigShl(d, IF e - u >= 0 THEN 0 ELSE u - e)
        IN  FiniteOrInf(neg,
                RoundQuotient(BigDivMod(BigShl(n, IF e - u >= 0 THEN e - u ELSE 0), den),
                              den),
                u))

\* The float nearest to (n / d) * 2^e, for naturals n and d > 0.
RoundScaled(neg, n, d, e) ==
    Eager(<<neg, n, d, e>>,
        IF n = BigZero THEN FZero(neg)
        ELSE IF d = BigOne /\ BigBitLen(n) <= Precision
                /\ e >= MinExp /\ e + BigBitLen(n) <= MaxExp
        THEN Finite(neg, n, e)
        ELSE RoundAt(neg, n, d, e, UnitExponent(n, d, e)))

\* float(n) for an int n
FloatOfInt(n) ==
    Eager(n,
        RoundScaled(n < 0, BigOfInt(IF n < 0 THEN -n ELSE n), BigOne, 0))

FNeg(x) == IF x.k = "nan" THEN x ELSE [x EXCEPT !.neg = ~x.neg]

\* (-1)^xneg * a + (-1)^yneg * b, times 2^e0
AddAligned(xneg, a, yneg, b, e0) ==
    Eager(<<xneg, a, yneg, b, e0>>,
        LET c == BigCmp(a, b)
        IN  IF xneg # yneg /\ c = 0 THEN FZero(FALSE)
            ELSE RoundScaled(IF xneg = yneg \/ c > 0 THEN xneg ELSE yneg,
                             IF xneg = yneg THEN BigAdd(a, b)
                             ELSE IF c > 0 THEN BigSub(a, b) ELSE BigSub(b, a),
                             BigOne, e0))

\* x + y; an operand more than 64 binary places below the other is below a
\* quarter of its unit in the last place and leaves it unchanged.
FAdd(x, y) ==
    Eager(<<x, y>>,
        IF x.k = "nan" \/ y.k = "nan" THEN NaN
        ELSE IF x.k = "inf" THEN (IF y.k = "inf" /\ y.neg # x.neg THEN NaN ELSE x)
        ELSE IF y.k = "inf" THEN y
        ELSE IF IsZero(x) /\ IsZero(y) THEN FZero(x.neg /\ y.neg)
        ELSE IF IsZero(x) THEN y
        ELSE IF IsZero(y) THEN x
        ELSE IF BigBitLen(y.m) + y.e + 64 < BigBitLen(x.m) + x.e THEN x
        ELSE IF BigBitLen(x.m) + x.e + 64 < BigBitLen(y.m) + y.e THEN y
        ELSE LET e0 == IF x.e < y.e THEN x.e ELSE y.e
             IN  AddAligned(x.neg, BigShl(x.m, x.e - e0),
                            y.neg, BigShl(y.m, y.e - e0), e0))

\* x - y
FSub(x, y) == FAdd(x, FNeg(y))

\* x * y
FMul(x, y) ==
    Eager(<<x, y>>,
        IF x.k = "nan" \/ y.k = "nan" THEN NaN
        ELSE IF x.k = "inf" \/ y.k = "inf"
        THEN (IF IsZero(x) \/ IsZero(y) THEN NaN ELSE Inf(x.neg # y.neg))
        ELSE RoundScaled(x.neg # y.neg, BigMul(x.m, y.m), BigOne, x.e + y.e))

ZeroDivisionError == [k |-> "ZeroDivisionError", neg |-> FALSE, m |-> BigZero, e |-> 0]

\* x / y; a zero divisor raises ZeroDivisionError
FDiv(x, y) ==
    Eager(<<x, y>>,
        IF IsZero(y) THEN ZeroDivisionError
        ELSE IF x.k = "nan" \/ y.k = "nan" THEN NaN
        ELSE IF x.k = "inf" THEN (IF y.k = "inf" THEN NaN ELSE Inf(x.neg # y.neg))
        ELSE IF y.k = "inf" THEN FZero(x.neg # y.neg)
        ELSE RoundScaled(x.neg # y.neg, x.m, y.m, x.e - y.e))

\* |x| < |y| for finite floats that are not zero
MagLess(x, y) ==
    Eager(<<x, y>>,
        LET bx == BigBitLen(x.m) + x.e
            by == BigBitLen(y.m) + y.e
            e0 == IF x.e < y.e THEN x.e ELSE y.e
        IN  IF bx # by THEN bx < by
            ELSE BigCmp(BigShl(x.m, x.e - e0), BigShl(y.m, y.e - e0)) < 0)

\* x < y
FLess(x, y) ==
    Eager(<<x, y>>,
        IF x.k = "nan" \/ y.k = "nan" THEN FALSE
        ELSE IF IsZero(x) /\ IsZero(y) THEN FALSE
        ELSE IF IsZero(x) THEN ~y.neg
        ELSE IF IsZero(y) THEN x.neg
        ELSE IF x.neg # y.neg THEN x.neg
        ELSE IF x.k = "inf" \/ y.k = "inf"
        THEN (IF x.neg THEN x.k = "inf" /\ y.k # "inf" ELSE y.k = "inf" /\ x.k # "inf")
        ELSE IF x.neg THEN MagLess(y, x) ELSE MagLess(x, y))

\* Python's min(x, y) and max(x, y): the first argument unless the second is
\* strictly smaller (larger).
FMin(x, y) == IF FLess(y, x) THEN y ELSE x

FMax(x, y) == IF FLess(x, y) THEN y ELSE x

(***************************************************************************)
(* float(text), str(int) and f"{x:.<k>f}"                                  *)
(***************************************************************************)

\* None, which is no text
None == <<"None">>

ValueError == [k |-> "ValueError", neg |-> FALSE, m |-> BigZero, e |-> 0]

\* float() first turns every decimal digit into its ASCII digit and every
\* white space outside ASCII into a space.
ToAscii(c) ==
    IF c \in Digits THEN AsciiDigits[DigitVal(c) + 1]
    ELSE IF c = "U+00A0" THEN " "
    ELSE c

AsciiSpace == {"\t", "\n", "\f", "\r", " "}

IsAsciiDigit(c) == \E i \in 1..10 : AsciiDigits[i] = c

RECURSIVE StripLeft(_)
StripLeft(s) == IF s # << >> /\ Head(s) \in AsciiSpace THEN StripLeft(Tail(s)) ELSE s

RECURSIVE StripRight(_)
StripRight(s) ==
    IF s # << >> /\ s[Len(s)] \in AsciiSpace
    THEN StripRight(SubSeq(s, 1, Len(s) - 1)) ELSE s

\* An underscore is allowed only between two digits.
UnderscoresOk(s) ==
    \A i \in 1..Len(s) :
        s[i] = "_" => /\ i > 1 /\ IsAsciiDigit(s[i - 1])
                      /\ i < Len(s) /\ IsAsciiDigit(s[i + 1])

NotUnderscore(c) == c # "_"

UpperCase == <<"A", "B", "C", "D", "E", "F", "G", "H", "I", "J", "K", "L", "M",
               "N", "O", "P", "Q", "R", "S", "T", "U", "V", "W", "X", "Y", "Z">>

LowerCase == <<"a", "b", "c", "d", "e", "f", "g", "h", "i", "j", "k", "l", "m",
               "n", "o", "p", "q", "r", "s", "t", "u", "v", "w", "x", "y", "z">>

Lower(c) ==
    IF \E i \in 1..26 : UpperCase[i] = c
    THEN LowerCase[CHOOSE i \in 1..26 : UpperCase[i] = c]
    ELSE c

RECURSIVE AsciiDigitsEnd(_, _)
AsciiDigitsEnd(s, i) ==
    IF i <= Len(s) /\ IsAsciiDigit(s[i]) THEN AsciiDigitsEnd(s, i + 1) ELSE i

\* int() of a string of decimal digits
RECURSIVE ParseInt(_)
ParseInt(ds) ==
    IF ds = << >> THEN 0
    ELSE 10 * ParseInt(SubSeq(ds, 1, Len(ds) - 1)) + DigitVal(ds[Len(ds)])

\* The natural number with the decimal digits ds
RECURSIVE BigParse(_)
BigParse(ds) ==
    Eager(ds,
        IF Len(ds) <= 4 THEN BigOfInt(ParseInt(ds))
        ELSE LET h == Len(ds) \div 2
             IN  BigAdd(BigMul(BigParse(SubSeq(ds, 1, Len(ds) - h)), BigPow10(h)),
                        BigParse(SubSeq(ds, Len(ds) - h + 1, Len(ds)))))

\* The exponent after "e": beyond seven digits its exact value makes no
\* difference to the result (an infinity or a zero).
ExponentValue(ds) ==
    Eager(ds,
        LET z == StripZeros(ds) IN IF Len(z) > 7 THEN 9999999 ELSE ParseInt(z))

\* The float nearest to the decimal number with digits ds (leading zeros
\* stripped) times 10^x.
DecimalToFloat(neg, ds, x) ==
    Eager(<<neg, ds, x>>,
        IF ds = << >> THEN FZero(neg)
        ELSE IF Len(ds) - 1 + x >= 309 THEN Inf(neg)
        ELSE IF Len(ds) + x <= -324 THEN FZero(neg)
        ELSE With(BigPow10(IF x >= 0 THEN x ELSE -x), LAMBDA p :
                 RoundScaled(neg, BigMul(BigParse(ds), IF x >= 0 THEN p ELSE BigOne),
                             IF x >= 0 THEN BigOne ELSE p, 0)))

\* The characters float() reads: v in ASCII, without the white space around it
FloatChars(v) == StripRight(StripLeft([i \in 1..Len(v) |-> ToAscii(v[i])]))

\* The float of the characters t from position i0, after the sign: digits
\* to position a - 1, a fraction to position f1 - 1, then an exponent.
DecimalOfChars(t, neg, i0, a, f1) ==
    Eager(<<t, neg, i0, a, f1>>,
        LET int  == SubSeq(t, i0, a - 1)
            frac == IF f1 > a THEN SubSeq(t, a + 1, f1 - 1) ELSE << >>
            hasE == f1 <= Len(t) /\ t[f1] \in {"e", "E"}
            eneg == hasE /\ f1 + 1 <= Len(t) /\ t[f1 + 1] = "-"
            e0   == IF hasE /\ f1 + 1 <= Len(t) /\ t[f1 + 1] \in {"+", "-"}
                    THEN f1 + 2 ELSE f1 + 1
            e1   == IF hasE THEN AsciiDigitsEnd(t, e0) ELSE f1
            ev   == IF hasE THEN ExponentValue(SubSeq(t, e0, e1 - 1)) ELSE 0
        IN  IF /\ int \o frac # << >>
               /\ hasE => e1 > e0
               /\ e1 = Len(t) + 1
            THEN DecimalToFloat(neg, StripZeros(int \o frac),
                                (IF eneg THEN -ev ELSE ev) - Len(frac))
            ELSE ValueError)

\* The float of the characters t, which hold no underscore
FloatOfChars(t) ==
    Eager(t,
        LET neg  == t # << >> /\ t[1] = "-"
            i0   == IF t # << >> /\ t[1] \in {"+", "-"} THEN 2 ELSE 1
            word == [i \in 1..(Len(t) - i0 + 1) |-> Lower(t[i0 + i - 1])]
        IN  IF word \in {<<"i", "n", "f">>, <<"i", "n", "f", "i", "n", "i", "t", "y">>}
            THEN Inf(neg)
            ELSE IF word = <<"n", "a", "n">> THEN NaN
            ELSE With(AsciiDigitsEnd(t, i0), LAMBDA a :
                     DecimalOfChars(t, neg, i0, a,
                         IF a <= Len(t) /\ t[a] = "."
                         THEN AsciiDigitsEnd(t, a + 1) ELSE a)))

\* float(v) for a str v, ValueError when v is not the text of a float
FloatOfText(v) ==
    With(FloatChars(v), LAMBDA t0 :
        IF ~UnderscoresOk(t0) THEN ValueError
        ELSE FloatOfChars(SelectSeq(t0, NotUnderscore)))

\* safe_float(v, default): float(v), or default when float(v) raises
\* (TypeError for None, ValueError for a text that is no float).
safe_float(v, default) ==
    Eager(<<v, default>>,
        IF v = None THEN default
        ELSE With(FloatOfText(v), LAMBDA x : IF x = ValueError THEN default ELSE x))

\* str(n) for an int n
IntText(n) ==
    Eager(n,
        IF n = 0 THEN <<"0">>
        ELSE (IF n < 0 THEN <<"-">> ELSE << >>) \o BigText(BigOfInt(IF n < 0 THEN -n ELSE n)))

\* The digits n of a natural number as a decimal with k places
FixedPoint(neg, n, k) ==
    Eager(<<neg, n, k>>,
        LET ds == [i \in 1..(k + 1 - Len(n)) |-> "0"] \o n
        IN  (IF neg THEN <<"-">> ELSE << >>)
            \o SubSeq(ds, 1, Len(ds) - k)
            \o (IF k > 0 THEN <<".">> \o SubSeq(ds, Len(ds) - k + 1, Len(ds)) ELSE << >>))

\* a / 2^s rounded to the nearest natural number, a tie to the even one
RoundShift(a, s) ==
    Eager(<<a, s>>,
        With(IF s <= 0 THEN BigShl(a, -s) ELSE BigShr(a, s), LAMBDA q :
            IF /\ s > 0 /\ BigBit(a, s - 1) = 1
               /\ ~BigLowZero(a, s - 1) \/ BigBit(q, 0) = 1
            THEN BigAdd(q, BigOne) ELSE q))

\* f"{x:.<k>f}": x rounded to k decimals, ties to even, with the sign of x.
FormatFixed(x, k) ==
    Eager(<<x, k>>,
        IF x.k = "nan" THEN <<"n", "a", "n">>
        ELSE IF x.k = "inf"
        THEN (IF x.neg THEN <<"-">> ELSE << >>) \o <<"i", "n", "f">>
        ELSE FixedPoint(x.neg, BigText(RoundShift(BigMul(x.m, BigPow10(k)), -x.e)), k))

(***************************************************************************)
(* Comparison and search of strings                                        *)
(***************************************************************************)

\* a < b for str: the first differing character decides, a proper prefix is less.
StrLess(a, b) ==
    \E i \in 1..(Len(b)) :
        /\ \A j \in 1..(i - 1) : j <= Len(a) /\ a[j] = b[j]
        /\ \/ i = Len(a) + 1
           \/ i <= Len(a) /\ Ord(a[i]) < Ord(b[i])

\* sorted(S) for a finite set of strings.
RECURSIVE Sorted(_)
Sorted(S) ==
    IF S = {} THEN << >>
    ELSE LET m == CHOOSE x \in S : \A y \in S \ {x} : StrLess(x, y)
         IN  <<m>> \o Sorted(S \ {m})

StartsWithAt(s, i, lit) ==
    /\ i + Len(lit) - 1 <= Len(s)
    /\ \A k \in 1..Len(lit) : s[i + k - 1] = lit[k]

\* sub in s
Contains(sub, s) == \E i \in 1..(Len(s) + 1) : StartsWithAt(s, i, sub)

\* s.find(c, k, j) with positions counted from 1: the first position from k
\* to j - 1 that holds c, or 0.
FindChar(s, c, k, j) ==
    IF \E h \in k..(j - 1) : s[h] = c
    THEN CHOOSE h \in k..(j - 1) : s[h] = c /\ \A g \in k..(h - 1) : s[g] # c
    ELSE 0

(***************************************************************************)
(* Paths (posixpath) and the file system                                   *)
(*                                                                         *)
(* The file system is a set ds of directories and a function fs from the   *)
(* regular files to their contents; both are keyed by paths without "."    *)
(* components, repeated separators or a trailing separator, and with ".."  *)
(* components only at the front (a key that begins with ".." names an      *)
(* object outside the working directory).  The empty key names the         *)
(* working directory and the key "/" the root directory; both exist.       *)
(* There are no symbolic links.                                            *)
(***************************************************************************)

Sep == "/"

\* path.rfind(sep) + 1
LastSep(path) ==
    IF \E i \in 1..Len(path) : path[i] = Sep
    THEN CHOOSE i \in 1..Len(path) :
             path[i] = Sep /\ \A j \in (i + 1)..Len(path) : path[j] # Sep
    ELSE 0

\* head.rstrip(sep)
RStripSep(head) ==
    SubSeq(head, 1, CHOOSE i \in 0..Len(head) :
                        /\ i = 0 \/ head[i] # Sep
                        /\ \A j \in (i + 1)..Len(head) : head[j] = Sep)

\* os.path.split(path): <<head, tail>>
Split(path) ==
    LET i    == LastSep(path)
        head == SubSeq(path, 1, i)
        tail == SubSeq(path, i + 1, Len(path))
    IN  IF \E k \in 1..Len(head) : head[k] # Sep
        THEN <<RStripSep(head), tail>>
        ELSE <<head, tail>>

\* os.path.dirname
Dirname(path) == Split(path)[1]

\* os.path.basename
Basename(path) == Split(path)[2]

\* os.path.join(a, b)
Join(a, b) ==
    IF b # << >> /\ b[1] = Sep THEN b
    ELSE IF a = << >> \/ a[Len(a)] = Sep THEN a \o b
    ELSE a \o <<Sep>> \o b

\* The components of a path: the texts between its separators, the empty
\* ones included.
RECURSIVE Components(_)
Components(path) ==
    With(FindChar(path, Sep, 1, Len(path) + 1), LAMBDA i :
        IF i = 0 THEN <<path>>
        ELSE <<SubSeq(path, 1, i - 1)>>
             \o Components(SubSeq(path, i + 1, Len(path))))

Dot == <<".">>

DotDot == <<".", ".">>

\* The key k names a directory above the working directory.
Above(k) ==
    k # << >> /\ \A i \in DOMAIN Components(k) : Components(k)[i] = DotDot

\* The key k names a directory: the working directory, one above it, the
\* root directory, or a member of ds.
IsDirKey(k, ds) == k = << >> \/ k = <<Sep>> \/ k \in ds \/ Above(k)

\* The key of the parent of the directory with key k
Parent(k) ==
    IF k = <<Sep>> THEN k
    ELSE IF k = << >> THEN DotDot
    ELSE IF Basename(k) = DotDot THEN Join(k, DotDot)
    ELSE Dirname(k)

\* The key of the entry name of the directory with key k; an empty
\* component (a repeated or trailing separator) and "." name the directory
\* itself, ".." its parent.
Enter(k, name) ==
    IF name = << >> \/ name = Dot THEN k
    ELSE IF name = DotDot THEN Parent(k)
    ELSE Join(k, name)

\* Path resolution from the directory with key k through the components
\* names: every component is looked up in a directory, so that what was
\* reached before it must be one (ENOTDIR when it is a regular file, ENOENT
\* when it does not exist).  The object reached last may be of any kind,
\* or not exist.
RECURSIVE Walk(_, _, _, _)
Walk(k, names, ds, fs) ==
    IF names = << >> THEN [err |-> "", key |-> k]
    ELSE IF ~IsDirKey(k, ds)
    THEN [err |-> IF k \in DOMAIN fs THEN "NotADirectoryError"
                  ELSE "FileNotFoundError",
          key |-> None]
    ELSE Walk(Enter(k, Head(names)), Tail(names), ds, fs)

\* The resolution of a path by the file system: [err, key], err the error
\* of the resolution ("" when there is none) and key the key of the object
\* the path names, which need not exist.  The empty path names nothing.
Resolve(path, ds, fs) ==
    IF path = << >> THEN [err |-> "FileNotFoundError", key |-> None]
    ELSE Walk(IF path[1] = Sep THEN <<Sep>> ELSE << >>, Components(path), ds, fs)

\* The key of the object a path names, None when the path cannot be
\* resolved.
PathKey(path, ds, fs) == Resolve(path, ds, fs).key

\* os.path.isdir
IsDir(path, ds, fs) ==
    With(Resolve(path, ds, fs), LAMBDA r : r.err = "" /\ IsDirKey(r.key, ds))

\* os.path.lexists
Exists(path, ds, fs) ==
    With(Resolve(path, ds, fs), LAMBDA r :
        r.err = "" /\ (IsDirKey(r.key, ds) \/ r.key \in DOMAIN fs))

\* The names of the entries directly under the directory with key d.
Entries(d, ds, fs) ==
    {Basename(q) : q \in {x \in ds \cup DOMAIN fs :
                             /\ x # d
                             /\ Basename(x) # << >>
                             /\ Basename(x) # DotDot
                             /\ Dirname(x) = d}}

(***************************************************************************)
(* fnmatch and glob                                                        *)
(***************************************************************************)

\* glob.has_magic
has_magic(s) == \E i \in 1..Len(s) : s[i] \in {"*", "?", "["}

\* glob._ishidden
Hidden(name) == name # << >> /\ name[1] = "."

\* A piece of a translated pattern: "*", or one character that is (neg
\* FALSE) or is not (neg TRUE) among singles or within one of ranges.
Star == [star |-> TRUE, neg |-> FALSE, singles |-> {}, ranges |-> {}]

OneOf(neg, singles, ranges) ==
    [star |-> FALSE, neg |-> neg, singles |-> singles, ranges |-> ranges]

\* The position of the "]" that closes the "[" at position i, or 0: a "!"
\* and then a "]" right after the "[" do not close it.
ClassEnd(pat, i) ==
    LET j1 == IF i + 1 <= Len(pat) /\ pat[i + 1] = "!" THEN i + 2 ELSE i + 1
        j2 == IF j1 <= Len(pat) /\ pat[j1] = "]" THEN j1 + 1 ELSE j1
    IN  FindChar(pat, "]", j2, Len(pat) + 1)

\* pat[i:j] cut at the hyphens that stand for ranges: the next hyphen is
\* looked for from position k.
RECURSIVE Chunks(_, _, _, _)
Chunks(pat, i, k, j) ==
    LET h == FindChar(pat, "-", k, j)
    IN  IF h = 0 THEN <<SubSeq(pat, i, j - 1)>>
        ELSE <<SubSeq(pat, i, h - 1)>> \o Chunks(pat, h + 1, h + 3, j)

\* A hyphen that ends the class is no range.
TrailingHyphen(cs) ==
    IF Len(cs) > 1 /\ cs[Len(cs)] = << >>
    THEN SubSeq(cs, 1, Len(cs) - 2) \o <<cs[Len(cs) - 1] \o <<"-">> >>
    ELSE cs

\* "Remove empty ranges": a range whose first character is above its last is
\* dropped, from the last pair of chunks to the first.
RECURSIVE RemoveEmptyRanges(_, _)
RemoveEmptyRanges(cs, k) ==
    IF k < 2 THEN cs
    ELSE LET a == cs[k - 1]
             b == cs[k]
         IN  IF Ord(a[Len(a)]) > Ord(b[1])
             THEN RemoveEmptyRanges(
                      SubSeq(cs, 1, k - 2)
                          \o <<SubSeq(a, 1, Len(a) - 1) \o Tail(b)>>
                          \o SubSeq(cs, k + 1, Len(cs)),
                      k - 1)
             ELSE RemoveEmptyRanges(cs, k - 1)

\* The piece for the class pat[i:j], i after the "[" and j at the "]".
ClassPiece(pat, i, j) ==
    With(TrailingHyphen(Chunks(pat, i, IF pat[i] = "!" THEN i + 2 ELSE i + 1, j)),
         LAMBDA cs0 :
    With(RemoveEmptyRanges(cs0, Len(cs0)), LAMBDA cs :
        LET neg == pat[i] = "!"
            n   == Len(cs)
            \* the characters of chunk k that are not an end of a range
            from(k) == IF k > 1 THEN 2 ELSE IF neg THEN 2 ELSE 1
            to(k)   == IF k < n THEN Len(cs[k]) - 1 ELSE Len(cs[k])
        IN  IF n = 1 /\ cs[1] = << >> THEN OneOf(FALSE, {}, {})
            ELSE OneOf(neg,
                       UNION {{cs[k][x] : x \in from(k)..to(k)} : k \in 1..n},
                       {<<Ord(cs[k][Len(cs[k])]), Ord(cs[k + 1][1])>> :
                           k \in 1..(n - 1)})))

\* fnmatch.translate(pat) from position i on, as a sequence of pieces
RECURSIVE translate(_, _)
translate(pat, i) ==
    IF i > Len(pat) THEN << >>
    ELSE IF pat[i] = "*" THEN <<Star>> \o translate(pat, i + 1)
    ELSE IF pat[i] = "?" THEN <<OneOf(TRUE, {}, {})>> \o translate(pat, i + 1)
    ELSE IF pat[i] = "[" /\ ClassEnd(pat, i) # 0
    THEN <<ClassPiece(pat, i + 1, ClassEnd(pat, i))>>
         \o translate(pat, ClassEnd(pat, i) + 1)
    ELSE <<OneOf(FALSE, {pat[i]}, {})>> \o translate(pat, i + 1)

PieceMatches(t, c) ==
    t.neg # (c \in t.singles \/ \E r \in t.ranges : r[1] <= Ord(c) /\ Ord(c) <= r[2])

\* S is the set of lengths of the prefixes of name that the pieces before
\* the k-th match; the whole name must match all pieces.
RECURSIVE MatchFrom(_, _, _, _)
MatchFrom(name, pieces, k, S) ==
    Eager(S,
        IF k > Len(pieces) THEN Len(name) \in S
        ELSE IF pieces[k].star
        THEN MatchFrom(name, pieces, k + 1,
                       {p \in 0..Len(name) : \E q \in S : q <= p})
        ELSE MatchFrom(name, pieces, k + 1,
                       {q + 1 : q \in {x \in S : x < Len(name)
                                                  /\ PieceMatches(pieces[k], name[x + 1])}}))

\* fnmatch.fnmatchcase(name, pat)
fnmatch(name, pat) == MatchFrom(name, translate(pat, 1), 1, {0})

\* glob._listdir(dirname, dir_fd, dironly): the names under dirname (the
\* working directory when dirname is empty), none when it cannot be listed.
GlobListdir(dirname, dironly, ds, fs) ==
    With(Resolve(IF dirname = << >> THEN Dot ELSE dirname, ds, fs), LAMBDA r :
        IF r.err # "" \/ ~IsDirKey(r.key, ds) THEN {}
        ELSE {n \in Entries(r.key, ds, fs) :
                 dironly => IsDirKey(Join(r.key, n), ds)})

\* glob._glob1(dirname, pattern, dir_fd, dironly)
glob1(dirname, pattern, dironly, ds, fs) ==
    {n \in GlobListdir(dirname, dironly, ds, fs) :
        /\ Hidden(pattern) \/ ~Hidden(n)
        /\ fnmatch(n, pattern)}

\* glob._glob0(dirname, basename, dir_fd, dironly)
glob0(dirname, basename, dironly, ds, fs) ==
    IF basename # << >>
    THEN (IF Exists(Join(dirname, basename), ds, fs) THEN {basename} ELSE {})
    ELSE (IF IsDir(dirname, ds, fs) THEN {basename} ELSE {})

\* glob._iglob(pathname, root_dir, dir_fd, recursive, dironly) without
\* recursive: the set of the paths yielded.
RECURSIVE iglob(_, _, _, _)
iglob(pathname, dironly, ds, fs) ==
    LET dirname  == Dirname(pathname)
        basename == Basename(pathname)
        dirnames == IF dirname # pathname /\ has_magic(dirname)
                    THEN iglob(dirname, TRUE, ds, fs)
                    ELSE {dirname}
    IN  IF ~has_magic(pathname)
        THEN (IF basename # << >>
              THEN (IF Exists(pathname, ds, fs) THEN {pathname} ELSE {})
              ELSE (IF IsDir(dirname, ds, fs) THEN {pathname} ELSE {}))
        ELSE IF dirname = << >>
        THEN glob1(<< >>, basename, dironly, ds, fs)
        ELSE UNION {{Join(d, n) :
                        n \in IF has_magic(basename)
                              THEN glob1(d, basename, dironly, ds, fs)
                              ELSE glob0(d, basename, dironly, ds, fs)} :
                    d \in dirnames}

(***************************************************************************)
(* find_csvs and group_csvs_by_subdir                                      *)
(***************************************************************************)

\* A pattern for the trace files that every CSV file matches
AnyCsvPattern == <<"*", ".", "c", "s", "v">>

\* The base name of the pattern of line 151
KernelTracePattern ==
    <<"*", "_", "k", "e", "r", "n", "e", "l", "_", "t", "r", "a", "c", "e",
      ".", "c", "s", "v">>

\* find_csvs(variant_dir): sorted(glob.glob(<variant_dir>/*/*_kernel_trace.csv))
find_csvs(variant_dir, ds, fs) ==
    Sorted(iglob(Join(Join(variant_dir, <<"*">>), KernelTracePattern), FALSE, ds, fs))

\* AddToGroup with the path inserted at the front of its group
AddToGroupFront(groups, path) ==
    LET subdir == Dirname(path)
    IN  IF \E i \in 1..Len(groups) : groups[i][1] = subdir
        THEN [i \in 1..Len(groups) |->
                 IF groups[i][1] = subdir
                 THEN <<subdir, <<path>> \o groups[i][2]>>
                 ELSE groups[i]]
        ELSE Append(groups, <<subdir, <<path>> >>)

\* groups.setdefault(subdir, []).append(path), on a sequence of (subdir, files)
\* pairs kept in insertion order, which is the order of dict.items().
AddToGroup(groups, path) ==
    LET subdir == Dirname(path)
    IN  IF \E i \in 1..Len(groups) : groups[i][1] = subdir
        THEN [i \in 1..Len(groups) |->
                 IF groups[i][1] = subdir
                 THEN <<subdir, Append(groups[i][2], path)>>
                 ELSE groups[i]]
        ELSE Append(groups, <<subdir, <<path>> >>)

RECURSIVE GroupFold(_, _)
GroupFold(groups, csv_paths) ==
    IF csv_paths = << >> THEN groups
    ELSE GroupFold(AddToGroup(groups, Head(csv_paths)), Tail(csv_paths))

group_csvs_by_subdir(csv_paths) == GroupFold(<< >>, csv_paths)

(***************************************************************************)
(* VARIANT_DIR_RE and iter_variant_dirs                                    *)
(***************************************************************************)

\* End of the longest run of digits that starts at i (\d+ is greedy and what
\* follows it in the pattern is never a digit): the first index after the run.
RECURSIVE DigitsEnd(_, _)
DigitsEnd(s, i) ==
    IF i <= Len(s) /\ s[i] \in Digits THEN DigitsEnd(s, i + 1) ELSE i

\* The "$" of a pattern compiled without re.MULTILINE: the end of the string,
\* or just before a newline that is the last character of the string.
AtDollar(s, i) ==
    \/ i = Len(s) + 1
    \/ i = Len(s) /\ s[i] = "\n"

NoMatch == [ok |-> FALSE, p |-> << >>, ub |-> << >>, b |-> << >>]

\* VARIANT_DIR_RE.match(name): ^p(?P<p>\d+)_ub(?P<ub>\d+)_b(?P<b>\d+)$
VARIANT_DIR_RE(name) ==
    LET p0 == 2
        p1 == DigitsEnd(name, p0)
        u0 == p1 + 3
        u1 == DigitsEnd(name, u0)
        b0 == u1 + 2
        b1 == DigitsEnd(name, b0)
    IN  IF /\ StartsWithAt(name, 1, <<"p">>)
           /\ p1 > p0
           /\ StartsWithAt(name, p1, <<"_", "u", "b">>)
           /\ u1 > u0
           /\ StartsWithAt(name, u1, <<"_", "b">>)
           /\ b1 > b0
           /\ AtDollar(name, b1)
        THEN [ok |-> TRUE,
              p  |-> SubSeq(name, p0, p1 - 1),
              ub |-> SubSeq(name, u0, u1 - 1),
              b  |-> SubSeq(name, b0, b1 - 1)]
        ELSE NoMatch

\* os.listdir(root): [err, names]; err is the exception raised ("" when none).
Listdir(root, ds, fs) ==
    With(Resolve(root, ds, fs), LAMBDA r :
        IF r.err # "" THEN [err |-> r.err, names |-> {}]
        ELSE IF IsDirKey(r.key, ds)
        THEN [err |-> "", names |-> Entries(r.key, ds, fs)]
        ELSE IF r.key \in DOMAIN fs
        THEN [err |-> "NotADirectoryError", names |-> {}]
        ELSE [err |-> "FileNotFoundError", names |-> {}])

\* The loop of lines 84-93 over the sorted names; int() of a group of the
\* match is the natural number its digits spell.
RECURSIVE VariantsOf(_, _, _, _)
VariantsOf(root, names, ds, fs) ==
    IF names = << >> THEN << >>
    ELSE With(VARIANT_DIR_RE(Head(names)), LAMBDA m :
             LET full == Join(root, Head(names))
             IN  (IF IsDir(full, ds, fs) /\ m.ok
                  THEN << <<full, BigParse(m.p), BigParse(m.ub), BigParse(m.b)>> >>
                  ELSE << >>)
                 \o VariantsOf(root, Tail(names), ds, fs))

\* iter_variant_dirs(root): [err, out]; err is the diagnostic printed when the
\* root cannot be listed ("" when it can), out the tuples yielded, in order.
iter_variant_dirs(root, ds, fs) ==
    With(Listdir(root, ds, fs), LAMBDA entries :
        IF entries.err = "FileNotFoundError"
        THEN [err |-> "ERROR: root path not found", out |-> << >>]
        ELSE IF entries.err # ""
        THEN [err |-> "ERROR: failed to list root", out |-> << >>]
        ELSE [err |-> "", out |-> VariantsOf(root, Sorted(entries.names), ds, fs)])

(***************************************************************************)
(* compute_metrics                                                         *)
(***************************************************************************)

\* row.get(key, default)
Get(row, key, default) == IF key \in DOMAIN row THEN row[key] ELSE default

Zero == FZero(FALSE)

One == FloatOfInt(1)

\* cu_utilization without the clamp at 1.0
cu_utilization_unclamped(total_workgroups, n_cus) ==
    IF n_cus <= 0 THEN Zero
    ELSE FMul(FDiv(total_workgroups, FloatOfInt(n_cus)), FloatOfInt(100))

\* cu_utilization of lines 141-144
cu_utilization(total_workgroups, n_cus) ==
    IF n_cus <= 0 THEN Zero
    ELSE FMul(FMin(FDiv(total_workgroups, FloatOfInt(n_cus)), One), FloatOfInt(100))

\* compute_metrics(row, num_cus): <<time_us, total_workgroups, cu_utilization_pct>>
compute_metrics(row, n_cus) ==
    LET start_ts == safe_float(Get(row, "Start_Timestamp", <<"0">>), Zero)
        end_ts   == safe_float(Get(row, "End_Timestamp", <<"0">>), Zero)
        time_us  == FDiv(FSub(end_ts, start_ts), FloatOfInt(1000))
        wsx == FMax(safe_float(Get(row, "Workgroup_Size_X", <<"0">>), Zero), One)
        wsy == FMax(safe_float(Get(row, "Workgroup_Size_Y", <<"0">>), Zero), One)
        wsz == FMax(safe_float(Get(row, "Workgroup_Size_Z", <<"0">>), Zero), One)
        gsx == safe_float(Get(row, "Grid_Size_X", <<"0">>), Zero)
        gsy == safe_float(Get(row, "Grid_Size_Y", <<"0">>), Zero)
        gsz == safe_float(Get(row, "Grid_Size_Z", <<"0">>), Zero)
    IN  With(FMul(FMul(FDiv(gsx, wsx), FDiv(gsy, wsy)), FDiv(gsz, wsz)),
             LAMBDA total_workgroups :
                 <<time_us, total_workgroups, cu_utilization(total_workgroups, n_cus)>>)

(***************************************************************************)
(* count_occurrences and process_rows_from_half                            *)
(***************************************************************************)

\* args.match_substring (its default)
match_substring == <<"r", "m", "s", "_", "n", "o", "r", "m", "_", "f", "3", "2">>

\* row.get(kernel_col) or "": the text of the field, empty for None and for
\* a row without the column.
KernelText(row, kernel_col) ==
    LET v == Get(row, kernel_col, None)
    IN  IF v = None THEN << >> ELSE v

\* match_substring in (row.get(kernel_col) or "")
IsOccurrence(row, kernel_col, sub) == Contains(sub, KernelText(row, kernel_col))

RECURSIVE CountRows(_, _, _)
CountRows(rows, kernel_col, sub) ==
    IF rows = << >> THEN 0
    ELSE (IF IsOccurrence(Head(rows), kernel_col, sub) THEN 1 ELSE 0)
         + CountRows(Tail(rows), kernel_col, sub)

\* count_occurrences(csv_path, kernel_col, match_substring) on the content of
\* the file: [err, count]; err is the exception raised ("" when none).
count_occurrences(csv, kernel_col, sub) ==
    IF \A i \in 1..Len(csv.header) : csv.header[i] # kernel_col
    THEN [err |-> "KeyError", count |-> 0]
    ELSE [err |-> "", count |-> CountRows(csv.rows, kernel_col, sub)]

\* The loop of process_rows_from_half from row i on, with its two locals;
\* the result is the sequence of rows yielded.
RECURSIVE HalfLoop(_, _, _, _, _, _, _)
HalfLoop(rows, i, occ_index, started, start_occurrence_0based, kernel_col, sub) ==
    IF i > Len(rows) THEN << >>
    ELSE LET hit  == IsOccurrence(rows[i], kernel_col, sub)
             st   == started \/ (hit /\ occ_index = start_occurrence_0based)
             occ1 == IF hit THEN occ_index + 1 ELSE occ_index
         IN  (IF st THEN <<rows[i]>> ELSE << >>)
             \o HalfLoop(rows, i + 1, occ1, st, start_occurrence_0based, kernel_col, sub)

\* process_rows_from_half with occ_index counting from 1
process_rows_from_half_1based(rows, start_occurrence_0based, kernel_col, sub) ==
    HalfLoop(rows, 1, 1, FALSE, start_occurrence_0based, kernel_col, sub)

\* process_rows_from_half(csv_path, start_occurrence_0based, kernel_col, match_substring)
process_rows_from_half(rows, start_occurrence_0based, kernel_col, sub) ==
    HalfLoop(rows, 1, 0, FALSE, start_occurrence_0based, kernel_col, sub)

\* start_occ_0 = total_occ // 2
start_occ_0(total_occ) == total_occ \div 2

(***************************************************************************)
(* The aggregate writer: main                                              *)
(***************************************************************************)

\* The header row without its time_us column
OutputHeaderShort ==
    <<"variant_dir", "p", "ub", "b", "csv_path",
      "Dispatch_Id", "Kernel_Id", "Kernel_Name",
      "Start_Timestamp", "End_Timestamp",
      "Workgroup_Size_X", "Workgroup_Size_Y", "Workgroup_Size_Z",
      "Grid_Size_X", "Grid_Size_Y", "Grid_Size_Z",
      "Total_Workgroups", "CU_Utilization_pct">>

\* The header row of lines 185-205
OutputHeader ==
    <<"variant_dir", "p", "ub", "b", "csv_path",
      "Dispatch_Id", "Kernel_Id", "Kernel_Name",
      "Start_Timestamp", "End_Timestamp", "time_us",
      "Workgroup_Size_X", "Workgroup_Size_Y", "Workgroup_Size_Z",
      "Grid_Size_X", "Grid_Size_Y", "Grid_Size_Z",
      "Total_Workgroups", "CU_Utilization_pct">>

Range(f) == {f[i] : i \in DOMAIN f}

\* csv.writer writes None as the empty text and a text as it is.
CsvText(v) == IF v = None THEN << >> ELSE v

\* str(n) for the int n that int() made of a group of the match
NatText(n) == IF n = BigZero THEN <<"0">> ELSE BigText(n)

\* The list handed to out_writer.writerow at lines 224-244, by column, each
\* field as the text csv.writer makes of it.
OutputRecord(v, csv_path, row, n_cus) ==
    With(compute_metrics(row, n_cus), LAMBDA m :
    With([variant_dir |-> v[1], p |-> NatText(v[2]), ub |-> NatText(v[3]),
          b |-> NatText(v[4]), csv_path |-> csv_path,
          time_us |-> FormatFixed(m[1], 3),
          Total_Workgroups |-> FormatFixed(m[2], 6),
          CU_Utilization_pct |-> FormatFixed(m[3], 2)], LAMBDA computed :
        [c \in Range(OutputHeader) |->
            IF c \in DOMAIN computed THEN computed[c]
            ELSE CsvText(Get(row, c, << >>))]))

\* The output file encodes what it is given as UTF-8 when writerow hands it
\* over: a record with a character that cannot be encoded raises
\* UnicodeEncodeError and nothing of it is written.
EncodeFails(rec) ==
    \E c \in DOMAIN rec : \E i \in 1..Len(rec[c]) : rec[c][i] \in Surrogates

\* out_path = os.path.join(subdir, f"{variant_name}.csv")
OutPath(subdir, vdir) == Join(subdir, Basename(vdir) \o <<".", "c", "s", "v">>)

\* a test that never skips
ZeroOccurrencesNever(total_occ) == FALSE

\* total_occ == 0 (line 215)
ZeroOccurrences(total_occ) == total_occ = 0

\* "break" in place of "continue": a failed file ends the loop over the group
FilesAfterErrorBreak(fq) == << >>

\* The "continue" of the two per-file handlers (lines 211-213 and 245-247):
\* the files the loop still visits after a file failed.
FilesAfterError(fq) == Tail(fq)

LogEntry(msg, path, cause) == [msg |-> msg, path |-> path, cause |-> cause]

NoFault == [kind |-> "none", at |-> 0]

CountCall(csv_path) == [fn |-> "count_occurrences", path |-> csv_path, start |-> 0]

HalfCall(csv_path, s0) == [fn |-> "process_rows_from_half", path |-> csv_path, start |-> s0]

\* open(csv_path, "r"): [err, key]; err is the OSError raised ("" when
\* none), key the key of the file opened.
OpenRead(csv_path, ds, fs) ==
    With(Resolve(csv_path, ds, fs), LAMBDA r :
        IF r.err # "" THEN r
        ELSE IF IsDirKey(r.key, ds) THEN [err |-> "IsADirectoryError", key |-> None]
        ELSE IF r.key \notin DOMAIN fs THEN [err |-> "FileNotFoundError", key |-> None]
        ELSE r)

\* The first pass over csv_path (lines 208-213); an I/O failure f.kind = "count"
\* is an OSError raised by open or by a read.
CountPass(csv_path, ds, fs, f) ==
    IF f.kind = "count" THEN [err |-> "OSError", count |-> 0]
    ELSE With(OpenRead(csv_path, ds, fs), LAMBDA o :
             IF o.err # "" THEN [err |-> o.err, count |-> 0]
             ELSE count_occurrences(fs[o.key], "Kernel_Name", match_substring))

\* The rows the second pass yields before it ends or fails: a read failure
\* after f.at rows ends the stream there.
HalfPass(csv_path, ds, fs, total_occ, f) ==
    LET src == fs[PathKey(csv_path, ds, fs)].rows
        readable == IF f.kind = "read" THEN SubSeq(src, 1, f.at) ELSE src
    IN  process_rows_from_half(readable, start_occ_0(total_occ), "Kernel_Name",
                               match_substring)

\* The loop of lines 222-244 over the rows the second pass yielded: recs
\* are the records made of them, and the loop ends at the first record that
\* cannot be encoded, or after the last row the reader could read.
WriteRows(csv_path, recs, total_occ, f) ==
    LET bad == {i \in 1..Len(recs) : EncodeFails(recs[i])}
        n   == IF bad = {} THEN Len(recs)
               ELSE (CHOOSE i \in bad : \A j \in bad : i <= j) - 1
    IN  [failed |-> bad # {} \/ f.kind = "read",
         rows  |-> SubSeq(recs, 1, n),
         log   |-> IF bad # {}
                   THEN <<LogEntry("ERROR: processing", csv_path, "UnicodeEncodeError")>>
                   ELSE IF f.kind = "read"
                   THEN <<LogEntry("ERROR: processing", csv_path, "OSError: read")>>
                   ELSE << >>,
         calls |-> <<CountCall(csv_path), HalfCall(csv_path, start_occ_0(total_occ))>>]

\* The records of the rows the second pass yields
HalfRecords(v, csv_path, ds, fs, n_cus, total_occ, f) ==
    With(HalfPass(csv_path, ds, fs, total_occ, f), LAMBDA yielded :
        [i \in 1..Len(yielded) |-> OutputRecord(v, csv_path, yielded[i], n_cus)])

\* One iteration of the loop over files (lines 207-247) for csv_path under the
\* I/O failure f: the records handed to the writer, the diagnostics printed,
\* the calls made.
FileStep(v, csv_path, ds, fs, n_cus, f) ==
    With(CountPass(csv_path, ds, fs, f), LAMBDA c :
        IF c.err # ""
        THEN [failed |-> TRUE,
              rows  |-> << >>,
              log   |-> <<LogEntry("ERROR: failed counting occurrences in", csv_path, c.err)>>,
              calls |-> <<CountCall(csv_path)>>]
        ELSE IF ZeroOccurrences(c.count)
        THEN [failed |-> FALSE,
              rows  |-> << >>,
              log   |-> <<LogEntry("WARNING: no occurrences; skipping", csv_path, "")>>,
              calls |-> <<CountCall(csv_path)>>]
        ELSE WriteRows(csv_path, HalfRecords(v, csv_path, ds, fs, n_cus, c.count, f),
                       c.count, f))

\* The I/O failures that can strike the second pass over csv_path: open or a
\* read raises OSError after k rows were read, for any k.
HalfFaults(csv_path, ds, fs) ==
    With(CountPass(csv_path, ds, fs, NoFault), LAMBDA c :
        IF c.err # "" \/ ZeroOccurrences(c.count) THEN {}
        ELSE {[kind |-> "read", at |-> k] :
                 k \in 0..Len(fs[PathKey(csv_path, ds, fs)].rows)})

EmptyFiles == [x \in {} |-> x]

\* A trace file is held as csv.DictReader reads it: the header and the rows.
EmptyCsv == [header |-> << >>, rows |-> << >>]

(***************************************************************************)
(* The output file.  It is held as it was written: the header and the      *)
(* records of its whole lines, and in tail the bytes of a last line that   *)
(* was cut short.                                                          *)
(***************************************************************************)

\* open(out_path, "w") creates the file or empties it
EmptyOutput == [header |-> << >>, rows |-> << >>, tail |-> << >>]

\* The header handed to the writer at lines 185-205, in the buffer of the
\* file object
HeaderPending == [header |-> OutputHeader, rows |-> << >>]

\* writerow of the records recs: they join what the file object holds
AppendRows(pending, recs) == [pending EXCEPT !.rows = @ \o recs]

\* The file after a close that wrote all the file object held
Flushed(pending) == [header |-> pending.header, rows |-> pending.rows, tail |-> << >>]

\* A field needs quotes when it holds the delimiter, a quote or a character
\* of the line terminator (QUOTE_MINIMAL).
NeedsQuotes(text) == \E i \in 1..Len(text) : text[i] \in {",", "\"", "\r", "\n"}

\* text with every quote doubled
RECURSIVE DoubleQuotes(_)
DoubleQuotes(text) ==
    IF text = << >> THEN << >>
    ELSE (IF Head(text) = "\"" THEN <<"\"", "\"">> ELSE <<Head(text)>>)
         \o DoubleQuotes(Tail(text))

\* A field as csv.writer writes it
CsvField(text) ==
    IF NeedsQuotes(text) THEN <<"\"">> \o DoubleQuotes(text) \o <<"\"">> ELSE text

\* The fields from the k-th on, each after a delimiter
RECURSIVE CsvFieldsFrom(_, _)
CsvFieldsFrom(fields, k) ==
    IF k > Len(fields) THEN << >>
    ELSE <<",">> \o CsvField(fields[k]) \o CsvFieldsFrom(fields, k + 1)

\* The line writerow makes of a list of at least two fields: the fields
\* between delimiters and the line terminator "\r\n"
CsvLine(fields) == CsvField(fields[1]) \o CsvFieldsFrom(fields, 2) \o <<"\r", "\n">>

\* text.encode("utf-8"), as the file object encodes what it is given
RECURSIVE Encode(_)
Encode(text) ==
    IF text = << >> THEN << >>
    ELSE IF Len(text) = 1 THEN Utf8(text[1])
    ELSE Encode(SubSeq(text, 1, Len(text) \div 2))
         \o Encode(SubSeq(text, Len(text) \div 2 + 1, Len(text)))

\* The characters of the names of the columns
ColumnText ==
    ("variant_dir" :> <<"v", "a", "r", "i", "a", "n", "t", "_", "d", "i", "r">>)
    @@ ("p" :> <<"p">>)
    @@ ("ub" :> <<"u", "b">>)
    @@ ("b" :> <<"b">>)
    @@ ("csv_path" :> <<"c", "s", "v", "_", "p", "a", "t", "h">>)
    @@ ("Dispatch_Id" :> <<"D", "i", "s", "p", "a", "t", "c", "h", "_", "I", "d">>)
    @@ ("Kernel_Id" :> <<"K", "e", "r", "n", "e", "l", "_", "I", "d">>)
    @@ ("Kernel_Name" :> <<"K", "e", "r", "n", "e", "l", "_", "N", "a", "m", "e">>)
    @@ ("Start_Timestamp" :> <<"S", "t", "a", "r", "t", "_", "T", "i", "m", "e", "s", "t", "a", "m", "p">>)
    @@ ("End_Timestamp" :> <<"E", "n", "d", "_", "T", "i", "m", "e", "s", "t", "a", "m", "p">>)
    @@ ("time_us" :> <<"t", "i", "m", "e", "_", "u", "s">>)
    @@ ("Workgroup_Size_X" :> <<"W", "o", "r", "k", "g", "r", "o", "u", "p", "_", "S", "i", "z", "e", "_", "X">>)
    @@ ("Workgroup_Size_Y" :> <<"W", "o", "r", "k", "g", "r", "o", "u", "p", "_", "S", "i", "z", "e", "_", "Y">>)
    @@ ("Workgroup_Size_Z" :> <<"W", "o", "r", "k", "g", "r", "o", "u", "p", "_", "S", "i", "z", "e", "_", "Z">>)
    @@ ("Grid_Size_X" :> <<"G", "r", "i", "d", "_", "S", "i", "z", "e", "_", "X">>)
    @@ ("Grid_Size_Y" :> <<"G", "r", "i", "d", "_", "S", "i", "z", "e", "_", "Y">>)
    @@ ("Grid_Size_Z" :> <<"G", "r", "i", "d", "_", "S", "i", "z", "e", "_", "Z">>)
    @@ ("Total_Workgroups" :> <<"T", "o", "t", "a", "l", "_", "W", "o", "r", "k", "g", "r", "o", "u", "p", "s">>)
    @@ ("CU_Utilization_pct" :> <<"C", "U", "_", "U", "t", "i", "l", "i", "z", "a", "t", "i", "o", "n", "_", "p", "c", "t">>)

\* The header row as the list of texts handed to writerow
HeaderFields(header) == [c \in 1..Len(header) |-> ColumnText[header[c]]]

\* The fields of a record in the order of the columns
FieldsOf(header, rec) == [c \in 1..Len(header) |-> rec[header[c]]]

\* The bytes the file object holds, line by line
OutputLines(pending) ==
    <<Encode(CsvLine(HeaderFields(pending.header)))>>
    \o [i \in 1..Len(pending.rows) |-> Encode(CsvLine(FieldsOf(pending.header, pending.rows[i])))]

\* The places at which the write of lines can stop: <<k, m>> after k whole
\* lines and m bytes of the next.
CutPoints(lines) ==
    UNION {{<<k, m>> : m \in 0..(Len(lines[k + 1]) - 1)} : k \in 0..(Len(lines) - 1)}
    \cup {<<Len(lines), 0>>}

\* The file left by a write that stopped after k whole lines and m bytes of
\* the next
CutAt(pending, lines, k, m) ==
    [header |-> IF k = 0 THEN << >> ELSE pending.header,
     rows   |-> SubSeq(pending.rows, 1, k - 1),
     tail   |-> IF m = 0 THEN << >> ELSE SubSeq(lines[k + 1], 1, m)]

\* What a close that raises can leave of an output whose file object holds
\* pending: the write of the buffer stopped at the byte at which the
\* operating system refused (the device is full, the file size limit is
\* reached), or the error came after the last byte.
CloseOutcomes(pending) ==
    With(OutputLines(pending), LAMBDA lines :
        {CutAt(pending, lines, c[1], c[2]) : c \in CutPoints(lines)})

(***************************************************************************)
(* The inputs: trace files and directory trees                             *)
(***************************************************************************)

\* Longest trace file of a run of main, in rows.
MaxRows == 2

\* Longest trace file handed to the window selector alone, in rows.
MaxLen == 3

\* I/O failures the environment raises in one run of main, at most.
MaxFaults == 1

\* Largest magnitude of an integer field handed to compute_metrics alone.
MaxField == 2

\* Columns of a kernel trace file, as section 6 of the design lists them.
TraceHeader ==
    <<"Dispatch_Id", "Kernel_Id", "Kernel_Name", "Start_Timestamp",
      "End_Timestamp", "Workgroup_Size_X", "Workgroup_Size_Y",
      "Workgroup_Size_Z", "Grid_Size_X", "Grid_Size_Y", "Grid_Size_Z">>

MarkerName == match_substring

OtherName == <<"m", "u", "l", "_", "m", "a", "t">>

\* Kernel names a row of a run of main carries.
MainNames == {MarkerName, OtherName}

\* Kernel names a row handed to the window selector alone carries: the marker,
\* the marker inside a longer name, the marker cut short, another kernel, a
\* name that is a number, the empty text and None (a short line).
WindowNames ==
    {MarkerName, OtherName, None, << >>, <<"3", "2">>,
     <<"x">> \o match_substring \o <<"y">>,
     SubSeq(match_substring, 1, Len(match_substring) - 1)}

\* The values of --match-substring the window selector alone is given.
WindowSubstrings == {match_substring, <<"3", "2">>}

\* The i-th row of a trace file, whose kernel is kn.  Odd rows are a dispatch
\* of 256 work-items with workgroup sizes recorded as 0; even rows one of
\* 3 x 1 x 1 work-items in workgroups of 2.
TraceRow(i, kn) ==
    [Dispatch_Id |-> IntText(i), Kernel_Id |-> <<"7">>, Kernel_Name |-> kn,
     Start_Timestamp |-> IntText(1000 * i),
     End_Timestamp |-> IntText(1000 * i + 4000 + i),
     Workgroup_Size_X |-> IF i % 2 = 1 THEN <<"0">> ELSE <<"2">>,
     Workgroup_Size_Y |-> IF i % 2 = 1 THEN <<"0">> ELSE <<"1">>,
     Workgroup_Size_Z |-> IF i % 2 = 1 THEN <<"0">> ELSE <<"1">>,
     Grid_Size_X |-> IF i % 2 = 1 THEN <<"2", "5", "6">> ELSE <<"3">>,
     Grid_Size_Y |-> <<"1">>, Grid_Size_Z |-> <<"1">>]

SeqsUpTo(S, n) == UNION {[1..m -> S] : m \in 0..n}

TraceOf(kns) == [header |-> TraceHeader,
                 rows |-> [i \in 1..Len(kns) |-> TraceRow(i, kns[i])]]

\* A file whose header lacks Kernel_Name.
NoKernelColumn ==
    [header |-> <<"Dispatch_Id", "Start_Timestamp", "End_Timestamp">>,
     rows |-> <<[Dispatch_Id |-> <<"1">>, Start_Timestamp |-> <<"0">>,
                 End_Timestamp |-> <<"9">>]>>]

\* The contents a trace file of a run of main may have.
MainTraces ==
    {TraceOf(kns) : kns \in SeqsUpTo(MainNames, MaxRows)}
    \cup {NoKernelColumn, EmptyCsv}

Root == <<"r">>

\* The same root named through the working directory, as the runner names
\* the directories it makes ("./prof_dir").
DotRoot == <<".", "/", "r">>

\* The same root named through one of its entries.
UpRoot == Root \o <<"/", "p", "1", "_", "u", "b", "2", "_", "b", "3", "/", ".", ".">>

\* The roots main is given when it is run twice.
TwiceRoots == {Root, DotRoot, UpRoot}

\* The roots iter_variant_dirs alone is given.
DirsRoots == {Root, Root \o <<Sep>>, DotRoot, UpRoot}

KernelTraceSuffix ==
    <<"_", "k", "e", "r", "n", "e", "l", "_", "t", "r", "a", "c", "e",
      ".", "c", "s", "v">>

TraceFile(d) == <<d>> \o KernelTraceSuffix

V1 == Join(Root, <<"p", "1", "_", "u", "b", "2", "_", "b", "3">>)

\* A variant directory named with an Arabic-Indic digit.
V2 == Join(Root, <<"p", "U+0662", "_", "u", "b", "2", "_", "b", "2">>)

\* A variant directory without trace files.
V3 == Join(Root, <<"p", "3", "_", "u", "b", "3", "_", "b", "3">>)

\* A directory whose name does not match.
VX == Join(Root, <<"p", "1", "_", "u", "b", "2", "_", "b", "3", "x">>)

H1 == <<"h", "1">>

H2 == <<"h", "2">>

\* A directory whose name held a byte that is not UTF-8.
HS == <<"h", "U+DC80">>

SlotA == Join(Join(V1, H1), TraceFile("1"))

SlotB == Join(Join(V1, H1), TraceFile("2"))

\* The directories of a run of main that meets no failure of its own making.
CleanDirs ==
    {Root, V1, V2, V3, VX, Join(V1, H1), Join(V1, H2), Join(V2, H1), Join(VX, H1)}

\* The same with a group whose directory name cannot be encoded, a
\* directory named as a trace file and one named as the output of its group.
HardDirs ==
    CleanDirs \cup {Join(V2, HS),
                    Join(Join(V2, H1), TraceFile("6")),
                    OutPath(Join(V1, H2), V1)}

\* The trace files of the group whose directory name cannot be encoded.
HardFiles ==
    (Join(Join(V2, HS), TraceFile("1")) :> TraceOf(<<MarkerName>>))
    @@ (Join(Join(V2, HS), TraceFile("2")) :> TraceOf(<<MarkerName>>))

\* The files every tree of a run of main holds: a trace file in a second
\* group of V1 and one in V2, and files the glob must pass over: a note
\* beside the traces, a hidden trace, a trace directly under the variant
\* directory and a trace under the directory whose name does not match.
FixedFiles ==
    (Join(Join(V1, H2), TraceFile("1")) :> TraceOf(<<OtherName, MarkerName>>))
    @@ (Join(Join(V2, H1), TraceFile("7")) :> TraceOf(<<MarkerName>>))
    @@ (Join(Join(V1, H1), <<"n", "o", "t", "e", "s", ".", "c", "s", "v">>)
            :> TraceOf(<<MarkerName>>))
    @@ (Join(Join(V1, H1), <<".">> \o TraceFile("9")) :> TraceOf(<<MarkerName>>))
    @@ (Join(V1, TraceFile("5")) :> TraceOf(<<MarkerName>>))
    @@ (Join(Join(VX, H1), TraceFile("1")) :> TraceOf(<<MarkerName>>))

OptFile(path, S) == {EmptyFiles} \cup {(path :> c) : c \in S}

\* The contents the second trace file of the first group may have.
SecondTraces ==
    {TraceOf(<<MarkerName, MarkerName>>), TraceOf(<<OtherName>>), NoKernelColumn}

MainTrees ==
    {a @@ b @@ FixedFiles :
        a \in OptFile(SlotA, MainTraces), b \in OptFile(SlotB, SecondTraces)}

\* The file systems a run of main starts on; on the empty one the root is
\* missing.
MainFileSystems ==
    {[ds |-> CleanDirs, fs |-> t] : t \in MainTrees}
    \cup {[ds |-> HardDirs, fs |-> HardFiles @@ a @@ FixedFiles] :
              a \in OptFile(SlotA, {TraceOf(<<MarkerName>>)})}
    \cup {[ds |-> {}, fs |-> EmptyFiles]}

\* The file systems whose device can refuse a write of an output (it is full,
\* or a file size limit is set): a tree whose first group has three records,
\* one whose first group has a file that fails and a file that yields
\* records, and one whose first group yields the header alone.
QuotaFileSystems ==
    {t \in MainFileSystems :
        /\ t.ds = CleanDirs
        /\ SlotA \in DOMAIN t.fs
        /\ \/ /\ t.fs[SlotA] \in {TraceOf(<<MarkerName>>), NoKernelColumn}
              /\ SlotB \in DOMAIN t.fs
              /\ t.fs[SlotB] = TraceOf(<<MarkerName, MarkerName>>)
           \/ /\ t.fs[SlotA] = TraceOf(<<OtherName>>)
              /\ SlotB \notin DOMAIN t.fs}

\* The values of --cus a run of main is given.
CusChoices == {3}

(***************************************************************************)
(* A run of main                                                           *)
(***************************************************************************)

\* main is given the root arg on a file system of systems.
InitMainOn(roots, systems) ==
    /\ \E t \in systems :
          dirs = t.ds /\ files = t.fs /\ quota = (t \in QuotaFileSystems)
    /\ arg \in roots
    /\ num_cus \in CusChoices
    /\ pc = "start"
    /\ vqueue = << >>
    /\ cur = << >>
    /\ gqueue = << >>
    /\ group = << >>
    /\ fqueue = << >>
    /\ log = << >>
    /\ calls = << >>
    /\ faults = 0
    /\ run = 1
    /\ files1 = EmptyFiles
    /\ ret = << >>

InitMain == InitMainOn({Root}, MainFileSystems)

\* for vdir, p, ub, b in iter_variant_dirs(root): the listing (lines 75-84)
Start ==
    /\ pc = "start"
    /\ \E r \in {iter_variant_dirs(arg, dirs, files)} :
          /\ vqueue' = r.out
          /\ log' = IF r.err = "" THEN log
                    ELSE Append(log, LogEntry(r.err, arg, ""))
    /\ pc' = "variant"
    /\ UNCHANGED <<dirs, files, num_cus, cur, gqueue, group, fqueue, calls,
                   faults, run, files1, quota, arg, ret>>

\* Lines 170-177: the next variant directory, its trace files and groups.
NextVariant ==
    /\ pc = "variant"
    /\ vqueue # << >>
    /\ \E csv_paths \in {find_csvs(Head(vqueue)[1], dirs, files)} :
          /\ cur' = Head(vqueue)
          /\ vqueue' = Tail(vqueue)
          /\ IF csv_paths = << >>
             THEN /\ log' = Append(log, LogEntry("WARNING: no *_kernel_trace.csv under",
                                                 Head(vqueue)[1], ""))
                  /\ gqueue' = << >>
                  /\ pc' = "variant"
             ELSE /\ log' = log
                  /\ gqueue' = group_csvs_by_subdir(csv_paths)
                  /\ pc' = "group"
    /\ UNCHANGED <<dirs, files, num_cus, group, fqueue, calls, faults, run,
                   files1, quota, arg, ret>>

\* iter_variant_dirs is exhausted: main returns.
Finish ==
    /\ pc = "variant"
    /\ vqueue = << >>
    /\ pc' = "done"
    /\ UNCHANGED <<mainVars, arg, ret>>

\* open(out_path, "w") raised: the handler of lines 248-250 reports it and
\* the loop over the groups goes on; no file of the group is visited.
AbortGroup(out_path, cause) ==
    /\ log' = Append(log, LogEntry("ERROR: cannot write output file", out_path, cause))
    /\ gqueue' = Tail(gqueue)
    /\ pc' = "group"
    /\ UNCHANGED <<group, fqueue>>

\* Lines 179-205: the next group; open creates its output file or empties
\* it, and the header is handed to the writer.  An out_path that cannot be
\* resolved or that names a directory cannot be opened.
OpenGroup ==
    /\ pc = "group"
    /\ gqueue # << >>
    /\ \E out_path \in {OutPath(Head(gqueue)[1], cur[1])} :
       \E r \in {Resolve(out_path, dirs, files)} :
          IF r.err # ""
          THEN AbortGroup(out_path, r.err) /\ files' = files
          ELSE IF IsDirKey(r.key, dirs)
          THEN AbortGroup(out_path, "IsADirectoryError") /\ files' = files
          ELSE /\ files' = (r.key :> EmptyOutput) @@ files
               /\ group' = <<Head(gqueue)[1], out_path, HeaderPending>>
               /\ fqueue' = Head(gqueue)[2]
               /\ gqueue' = Tail(gqueue)
               /\ pc' = "file"
               /\ log' = log
    /\ UNCHANGED <<dirs, num_cus, vqueue, cur, calls, faults, run, files1, quota, arg, ret>>

\* open(out_path, "w") raises OSError: nothing is created or truncated.
OpenFails ==
    /\ pc = "group"
    /\ gqueue # << >>
    /\ faults < MaxFaults
    /\ faults' = faults + 1
    /\ AbortGroup(OutPath(Head(gqueue)[1], cur[1]), "OSError: open")
    /\ UNCHANGED <<dirs, files, num_cus, vqueue, cur, calls, run, files1, quota, arg, ret>>

\* for subdir, files in groups.items() is exhausted.
EndVariant ==
    /\ pc = "group"
    /\ gqueue = << >>
    /\ pc' = "variant"
    /\ UNCHANGED <<mainVars, arg, ret>>

\* One iteration of the loop of lines 207-247 under the I/O failure f: the
\* records written join what the file object of the output holds.
FileIteration(f) ==
    /\ pc = "file"
    /\ fqueue # << >>
    /\ \E r \in {FileStep(cur, Head(fqueue), dirs, files, num_cus, f)} :
          /\ group' = [group EXCEPT ![3] = AppendRows(@, r.rows)]
          /\ log' = log \o r.log
          /\ calls' = calls \o r.calls
          /\ fqueue' = IF r.failed THEN FilesAfterError(fqueue) ELSE Tail(fqueue)
    /\ UNCHANGED <<dirs, files, num_cus, pc, vqueue, cur, gqueue, run, files1, quota, arg, ret>>

\* The next file of the group, counted and windowed without I/O failure.
ProcessFile == FileIteration(NoFault) /\ faults' = faults

\* open or a read of the first pass raises OSError.
CountFails ==
    /\ faults < MaxFaults
    /\ faults' = faults + 1
    /\ FileIteration([kind |-> "count", at |-> 0])

\* open or a read of the second pass raises OSError.
HalfFails ==
    /\ faults < MaxFaults
    /\ faults' = faults + 1
    /\ pc = "file"
    /\ fqueue # << >>
    /\ \E f \in HalfFaults(Head(fqueue), dirs, files) : FileIteration(f)

\* The loop over the files is exhausted and the with block of line 182 is
\* left: the close writes the header and the records the file object holds
\* to the output file.
CloseGroup ==
    /\ pc = "file"
    /\ fqueue = << >>
    /\ files' = [files EXCEPT ![PathKey(group[2], dirs, files)] = Flushed(group[3])]
    /\ group' = << >>
    /\ pc' = "group"
    /\ UNCHANGED <<dirs, num_cus, vqueue, cur, gqueue, fqueue, log, calls,
                   faults, run, files1, quota, arg, ret>>

\* The same close when the write of the buffer raises OSError (the disk is
\* full, say): the exception leaves the with block, the handler of lines
\* 248-250 reports it, and the output is left with the bytes written before
\* the failure, at whichever byte the device refuses.  Every file of the
\* group was visited before.
CloseFails ==
    /\ pc = "file"
    /\ fqueue = << >>
    /\ quota
    /\ faults < MaxFaults
    /\ faults' = faults + 1
    /\ \E c \in CloseOutcomes(group[3]) :
          files' = [files EXCEPT ![PathKey(group[2], dirs, files)] = c]
    /\ log' = Append(log, LogEntry("ERROR: cannot write output file", group[2],
                                   "OSError: close"))
    /\ group' = << >>
    /\ pc' = "group"
    /\ UNCHANGED <<dirs, num_cus, vqueue, cur, gqueue, fqueue, calls, run, files1,
                   quota, arg, ret>>

\* main is run again on the tree the first run left.
Rerun ==
    /\ pc = "done"
    /\ run = 1
    /\ run' = 2
    /\ files1' = files
    /\ log' = << >>
    /\ calls' = << >>
    /\ pc' = "start"
    /\ UNCHANGED <<dirs, files, num_cus, vqueue, cur, gqueue, group, fqueue,
                   faults, quota, arg, ret>>

NextQuiet ==
    \/ Start
    \/ NextVariant
    \/ Finish
    \/ OpenGroup
    \/ EndVariant
    \/ ProcessFile
    \/ CloseGroup

Next ==
    \/ NextQuiet
    \/ OpenFails
    \/ CountFails
    \/ HalfFails
    \/ CloseFails

Spec == InitMain /\ [][Next]_vars

NextTwice ==
    \/ NextQuiet
    \/ Rerun

\* The second run is made from a root named plainly and from roots named
\* through "." and "..".
InitTwice == InitMainOn(TwiceRoots, MainFileSystems)

SpecTwice == InitTwice /\ [][NextTwice]_vars

(***************************************************************************)
(* The window selector alone: count_occurrences, then                      *)
(* process_rows_from_half from occurrence total_occ // 2 (lines 210-221)   *)
(***************************************************************************)

\* What the other specifications leave untouched.
Idle ==
    /\ num_cus = 0
    /\ vqueue = << >>
    /\ cur = << >>
    /\ gqueue = << >>
    /\ group = << >>
    /\ fqueue = << >>
    /\ log = << >>
    /\ calls = << >>
    /\ faults = 0
    /\ quota = FALSE
    /\ run = 1
    /\ files1 = EmptyFiles

InitWindow ==
    /\ arg \in {[csv |-> TraceOf(kns), sub |-> s] :
                   kns \in SeqsUpTo(WindowNames, MaxLen), s \in WindowSubstrings}
    /\ ret = << >>
    /\ pc = "call"
    /\ dirs = {}
    /\ files = EmptyFiles
    /\ Idle

HalfWindow ==
    /\ pc = "call"
    /\ LET c == count_occurrences(arg.csv, "Kernel_Name", arg.sub)
       IN  ret' = [total_occ |-> c.count,
                   called |-> ~ZeroOccurrences(c.count),
                   rows |-> IF ZeroOccurrences(c.count) THEN << >>
                            ELSE process_rows_from_half(arg.csv.rows, start_occ_0(c.count),
                                                        "Kernel_Name", arg.sub)]
    /\ pc' = "return"
    /\ UNCHANGED <<mainVars, arg>>

SpecWindow == InitWindow /\ [][HalfWindow]_vars

(***************************************************************************)
(* compute_metrics alone                                                   *)
(***************************************************************************)

\* The texts of the integers from -MaxField to MaxField.
IntegerTexts == {IntText(n) : n \in (-MaxField)..MaxField}

\* Texts float() reads as something else than an integer, and texts it
\* rejects.
OtherTexts ==
    {<<"n", "a", "n">>, <<"i", "n", "f">>, <<"-", "i", "n", "f">>,
     <<"-", "0">>, <<"1", "e", "3">>, <<"0", ".", "5">>, <<" ", "2", " ">>,
     <<"U+0663">>, <<"x">>, << >>}

\* What the field Grid_Size_X may hold.
FieldTexts == IntegerTexts \cup OtherTexts \cup {None}

\* What the fields Grid_Size_Y and Grid_Size_Z may hold.
SecondTexts == {<<"1">>, <<"-", "1">>, <<"i", "n", "f">>}

ThirdTexts == {<<"1">>, <<"n", "a", "n">>}

\* What the fields Workgroup_Size_X, _Y and _Z may hold together: each of a
\* zero, a size, a NaN and an absent field in the first, and in the others a
\* size, a fraction, an infinity, a negative number and a text that is no
\* number.
SizeTexts ==
    {<<wx, <<"1">>, <<"1">> >> : wx \in {<<"0">>, <<"2">>, <<"n", "a", "n">>, None}}
    \cup {<< <<"1">>, <<"2">>, <<"0", ".", "5">> >>,
          << <<"2">>, <<"i", "n", "f">>, <<"-", "3">> >>,
          << <<"x">>, <<"n", "a", "n">>, <<"4">> >>}

MetricRow(g, w) ==
    [TraceRow(2, OtherName) EXCEPT !.Grid_Size_X = g[1], !.Grid_Size_Y = g[2],
                                   !.Grid_Size_Z = g[3],
                                   !.Workgroup_Size_X = w[1],
                                   !.Workgroup_Size_Y = w[2],
                                   !.Workgroup_Size_Z = w[3]]

\* The values of --cus compute_metrics alone is given.
MetricCus == (-1..1) \cup {MaxField + 1, 4000}

InitMetrics ==
    /\ arg \in {[row |-> MetricRow(g, w), num_cus |-> n] :
                   g \in FieldTexts \X SecondTexts \X ThirdTexts, w \in SizeTexts,
                   n \in MetricCus}
    /\ ret = << >>
    /\ pc = "call"
    /\ dirs = {}
    /\ files = EmptyFiles
    /\ Idle

Derive ==
    /\ pc = "call"
    /\ ret' = compute_metrics(arg.row, arg.num_cus)
    /\ pc' = "return"
    /\ UNCHANGED <<mainVars, arg>>

SpecMetrics == InitMetrics /\ [][Derive]_vars

(***************************************************************************)
(* iter_variant_dirs alone                                                 *)
(***************************************************************************)

\* Names an entry of the root may have: three that match, in an order that
\* differs from the numeric one; one that matches with digits of another
\* script; a matching name followed by a newline, by a letter, preceded by a
\* letter; one with a component without digits.
EntryNames ==
    {<<"p", "1", "_", "u", "b", "2", "_", "b", "3">>,
     <<"p", "1", "0", "_", "u", "b", "2", "_", "b", "3">>,
     <<"p", "0", "1", "_", "u", "b", "2", "_", "b", "0", "3">>,
     <<"p", "U+0661", "_", "u", "b", "U+0968", "_", "b", "U+FF13">>,
     <<"p", "1", "_", "u", "b", "2", "_", "b", "3", "\n">>,
     <<"p", "1", "_", "u", "b", "2", "_", "b", "3", "x">>,
     <<"x", "p", "1", "_", "u", "b", "2", "_", "b", "3">>,
     <<"p", "1", "_", "u", "b", "_", "b", "3">>}

\* Every way to make each name a directory, a regular file, or absent.
RootTrees ==
    {[ds |-> {Root} \cup {Join(Root, n) : n \in {x \in EntryNames : t[x] = "dir"}},
      fs |-> [q \in {Join(Root, n) : n \in {x \in EntryNames : t[x] = "file"}}
                 |-> EmptyCsv]] :
        t \in [EntryNames -> {"dir", "file", "absent"}]}

InitDirs ==
    /\ \E t \in RootTrees \cup
                {[ds |-> {}, fs |-> EmptyFiles], [ds |-> {}, fs |-> (Root :> EmptyCsv)]} :
          dirs = t.ds /\ files = t.fs
    /\ arg \in DirsRoots
    /\ ret = << >>
    /\ pc = "call"
    /\ Idle

ListVariants ==
    /\ pc = "call"
    /\ ret' = iter_variant_dirs(arg, dirs, files)
    /\ pc' = "return"
    /\ UNCHANGED <<mainVars, arg>>

SpecDirs == InitDirs /\ [][ListVariants]_vars

(***************************************************************************)
(* What the claims speak of                                                *)
(***************************************************************************)

\* The rows whose Kernel_Name is a text that contains sub.
MarkerRowsOf(rows, sub) ==
    {i \in 1..Len(rows) :
        /\ "Kernel_Name" \in DOMAIN rows[i]
        /\ rows[i].Kernel_Name # None
        /\ Contains(sub, rows[i].Kernel_Name)}

\* The rows of a file whose Kernel_Name contains the marker substring.
MarkerRows(rows) == MarkerRowsOf(rows, match_substring)

\* The row that holds the n-th (0-indexed) occurrence of sub.
NthMarker(rows, sub, n) ==
    CHOOSE i \in MarkerRowsOf(rows, sub) :
        Cardinality({j \in MarkerRowsOf(rows, sub) : j < i}) = n

\* The half-window of a file with at least one marker row: from the row of
\* occurrence N // 2 through the last row.
HalfWindowFor(rows, sub) ==
    SubSeq(rows, NthMarker(rows, sub, Cardinality(MarkerRowsOf(rows, sub)) \div 2),
           Len(rows))

HalfWindowOf(rows) == HalfWindowFor(rows, match_substring)

Counted(q) == \E i \in DOMAIN calls :
                  calls[i].fn = "count_occurrences" /\ calls[i].path = q

Windowed(q) == \E i \in DOMAIN calls :
                  calls[i].fn = "process_rows_from_half" /\ calls[i].path = q

Logged(msg, q) == \E i \in DOMAIN log : log[i].msg = msg /\ log[i].path = q

\* A failure of the counting pass or of the window-processing pass of q was caught.
FileFailed(q) ==
    \/ Logged("ERROR: failed counting occurrences in", q)
    \/ Logged("ERROR: processing", q)

EndsWith(s, lit) ==
    Len(s) >= Len(lit) /\ StartsWithAt(s, Len(s) - Len(lit) + 1, lit)

\* The output files: <subdir>/<name of the variant directory>.csv
IsOutput(q) ==
    /\ LastSep(q) > 0
    /\ LastSep(Dirname(q)) > 0
    /\ Basename(q) = Basename(Dirname(Dirname(q))) \o <<".", "c", "s", "v">>

Outputs(fs) == {q \in DOMAIN fs : IsOutput(q)}

\* The data rows of all output files whose source file path is q.
RowsFrom(q) ==
    {<<o, i>> \in UNION {{o} \X DOMAIN files[o].rows : o \in Outputs(files)} :
        files[o].rows[i].csv_path = q}

\* The trace files of the group of directory d, and those the loop visits after q.
TracesIn(d) ==
    {x \in DOMAIN files :
        /\ LastSep(x) > 0
        /\ Dirname(x) = d
        /\ Basename(x)[1] # "."
        /\ EndsWith(Basename(x), KernelTraceSuffix)}

LaterFiles(q) == {x \in TracesIn(Dirname(q)) : StrLess(q, x)}

\* q is a well-formed trace file without marker rows whose counting pass succeeded.
CountedZero(q) ==
    /\ Counted(q)
    /\ ~Logged("ERROR: failed counting occurrences in", q)
    /\ q \in DOMAIN files
    /\ "Kernel_Name" \in Range(files[q].header)
    /\ MarkerRows(files[q].rows) = {}

\* The close of the output of the group of directory d failed.
CloseFailed(d) ==
    \E i \in DOMAIN log :
        /\ log[i].msg = "ERROR: cannot write output file"
        /\ log[i].cause = "OSError: close"
        /\ Dirname(log[i].path) = d

\* C1: for a file with N >= 1 marker rows, process_rows_from_half called with
\* S = N // 2 yields exactly the rows from the row of the S-th (0-indexed)
\* marker occurrence through the last row, in file order.
C1_HalfWindowIsSuffix ==
    (pc = "return" /\ MarkerRowsOf(arg.csv.rows, arg.sub) # {})
        => /\ ret.called
           /\ ret.total_occ = Cardinality(MarkerRowsOf(arg.csv.rows, arg.sub))
           /\ ret.rows = HalfWindowFor(arg.csv.rows, arg.sub)

\* Three marker rows: the window starts at the second of them.
C1_Witness ==
    /\ pc = "return"
    /\ arg.sub = match_substring
    /\ MarkerRowsOf(arg.csv.rows, arg.sub) = {1, 2, 3}
    /\ ret.rows = SubSeq(arg.csv.rows, 2, 3)

\* C2: when main has returned, a file whose marker count is 0 was never
\* handed to the window selector, contributed no data row, is named by a
\* warning, and the loop went on to the later files of the group.
C2_ZeroCountSkipped ==
    pc = "done" =>
        \A q \in {calls[i].path : i \in DOMAIN calls} :
            CountedZero(q)
                => /\ ~Windowed(q)
                   /\ RowsFrom(q) = {}
                   /\ Logged("WARNING: no occurrences; skipping", q)
                   /\ \A x \in LaterFiles(q) : Counted(x)

\* A file without marker rows was skipped and the next file of its group was
\* windowed and written.
C2_Witness ==
    /\ pc = "done"
    /\ SlotA \in DOMAIN files
    /\ CountedZero(SlotA)
    /\ files[SlotA].rows # << >>
    /\ Windowed(SlotB)
    /\ RowsFrom(SlotB) # {}

\* The output of the group of directory d could not be opened.
OpenFailed(d) ==
    \E i \in DOMAIN log :
        /\ log[i].msg = "ERROR: cannot write output file"
        /\ log[i].cause # "OSError: close"
        /\ Dirname(log[i].path) = d

\* The output file of the group of directory d.
OutputOf(d) == OutPath(d, Dirname(d))

\* A trace file of which the whole half-window is to be written: it has the
\* Kernel_Name column and marker rows, and no failure of it was caught.
WrittenWhole(x) ==
    /\ x \in DOMAIN files
    /\ ~FileFailed(x)
    /\ "Kernel_Name" \in Range(files[x].header)
    /\ MarkerRows(files[x].rows) # {}

\* The group of directory d was not aborted: every later file of the failed
\* file q was counted and, when it has marker rows and did not fail itself,
\* handed to the window selector.
LaterFilesVisited(q) ==
    \A x \in LaterFiles(q) : Counted(x) /\ (WrittenWhole(x) => Windowed(x))

\* The output of the group of directory d is complete: the file holds the
\* header and, for every file of the group that did not fail, one record for
\* each row of its half-window.
OutputComplete(d) ==
    /\ OutputOf(d) \in DOMAIN files
    /\ files[OutputOf(d)].header = OutputHeader
    /\ files[OutputOf(d)].tail = << >>
    /\ \A x \in TracesIn(d) :
          WrittenWhole(x) => Cardinality(RowsFrom(x)) = Len(HalfWindowOf(files[x].rows))

\* A file whose header lacks Kernel_Name fails in the counting pass, and the
\* failure is caught and logged.
MissingColumnLogged ==
    \A q \in {calls[i].path : i \in DOMAIN calls} \cap DOMAIN files :
        "Kernel_Name" \notin Range(files[q].header) => FileFailed(q)

\* C3 (as claimed): a failure while counting or window-processing one file
\* never aborts its group: when main has returned, the failure is in the
\* log, every later file of the group was counted and processed, and the
\* group's output file is complete.
C3_FileFailureKeepsGroup ==
    pc = "done" =>
        /\ MissingColumnLogged
        /\ \A q \in {log[i].path : i \in DOMAIN log} :
              FileFailed(q) => LaterFilesVisited(q) /\ OutputComplete(Dirname(q))

\* C3 (amended): as above, but the output is complete only when the close
\* that writes it out succeeds; a close that fails is reported as "cannot
\* write output file" and came after every file of the group was visited.
C3_FileFailureKeepsGroupUnlessCloseFails ==
    pc = "done" =>
        /\ MissingColumnLogged
        /\ \A q \in {log[i].path : i \in DOMAIN log} :
              FileFailed(q)
                  => /\ LaterFilesVisited(q)
                     /\ ~OpenFailed(Dirname(q))
                     /\ OutputComplete(Dirname(q)) \/ CloseFailed(Dirname(q))

\* The first file of a group failed, the second was windowed, and the output
\* holds the header and the records of the second.
C3_Witness ==
    /\ pc = "done"
    /\ FileFailed(SlotA)
    /\ Windowed(SlotB)
    /\ RowsFrom(SlotB) # {}
    /\ OutputComplete(Dirname(SlotA))

\* C4 (as claimed): after the run, the output holds no data row of a file
\* whose counting pass or window-processing pass failed.
C4_FailedFileLeavesNoRow ==
    pc = "done" => \A q \in DOMAIN files : FileFailed(q) => RowsFrom(q) = {}

\* The writing of a data row made from q failed.
DataRowFailed(q) ==
    \E i \in DOMAIN log :
        /\ log[i].msg = "ERROR: processing"
        /\ log[i].cause = "UnicodeEncodeError"
        /\ log[i].path = q

\* C5 (as claimed): a failure to open or to write a group's output file (the
\* header row or any data row) aborts that group, so that its remaining
\* files are not processed, is logged, and the run goes on with every
\* remaining group and variant directory.
C5_OutputFailureAbortsGroup ==
    pc = "done" =>
        /\ \A q \in DOMAIN files :
              /\ OpenFailed(Dirname(q)) => ~Counted(q)
              /\ DataRowFailed(q) => \A x \in LaterFiles(q) : ~Counted(x)
        /\ \A d \in dirs :
              (TracesIn(d) # {} /\ VARIANT_DIR_RE(Basename(Dirname(d))).ok)
                  => \/ Logged("ERROR: cannot write output file", OutPath(d, Dirname(d)))
                     \/ OutPath(d, Dirname(d)) \in DOMAIN files

Hundred == FloatOfInt(100)

\* x <= y in Python: false when either is a NaN
FLeq(x, y) == x.k # "nan" /\ y.k # "nan" /\ ~FLess(y, x)

\* C6 (as claimed): cu_utilization_pct lies within [0, 100] when num_cus > 0
\* and is exactly 0 when num_cus <= 0, whatever the grid-size and
\* workgroup-size fields.
C6_UtilizationInRange ==
    pc = "return" =>
        IF arg.num_cus > 0
        THEN FLeq(Zero, ret[3]) /\ FLeq(ret[3], Hundred)
        ELSE ret[3] = Zero

\* C6 (amended): cu_utilization_pct is exactly 0 when num_cus <= 0.  When
\* num_cus > 0 it is a NaN exactly when total_workgroups is one; otherwise it
\* is never above 100, it lies within [0, 100] when total_workgroups is not
\* negative, and it is not above 0 when total_workgroups is negative.
C6_UtilizationInRangeOfNonNegativeTotal ==
    pc = "return" =>
        IF arg.num_cus > 0
        THEN /\ (ret[3].k = "nan") = (ret[2].k = "nan")
             /\ ret[3].k # "nan" => FLeq(ret[3], Hundred)
             /\ FLeq(Zero, ret[2]) => FLeq(Zero, ret[3]) /\ FLeq(ret[3], Hundred)
             /\ FLess(ret[2], Zero) => FLeq(ret[3], Zero)
        ELSE ret[3] = Zero

\* More workgroups than compute units: the percentage is clamped to 100.
C6_Witness ==
    /\ pc = "return"
    /\ arg.num_cus > 0
    /\ FLess(FloatOfInt(arg.num_cus), ret[2])
    /\ ret[2].k = "fin"
    /\ ret[3] = Hundred

\* C7: a second run of main on the tree the first run left, with the trace
\* files and the configuration unchanged, leaves every file as the first run
\* left it (the same output files with the same content), and never counts or
\* windows a file the first run wrote.
C7_SecondRunIdentical ==
    (pc = "done" /\ run = 2)
        => /\ files = files1
           /\ \A i \in DOMAIN calls :
                 PathKey(calls[i].path, dirs, files1) \notin Outputs(files1)

\* Both runs are over and the first wrote three output files, one with rows
\* of two trace files.
C7_Witness ==
    /\ pc = "done"
    /\ run = 2
    /\ arg = DotRoot
    /\ Cardinality(Outputs(files1)) = 3
    /\ \E o \in Outputs(files1) :
          Cardinality({files1[o].rows[i].csv_path : i \in DOMAIN files1[o].rows}) = 2

IsDigits(s) == s # << >> /\ \A i \in 1..Len(s) : s[i] \in Digits

\* The ways to read name as p<digits>_ub<digits>_b<digits>, nothing else:
\* the positions <<i, j>> at which "_ub" and "_b" start.
Splits(name) ==
    {ij \in (1..Len(name)) \X (1..Len(name)) :
        /\ name[1] = "p"
        /\ IsDigits(SubSeq(name, 2, ij[1] - 1))
        /\ SubSeq(name, ij[1], ij[1] + 2) = <<"_", "u", "b">>
        /\ IsDigits(SubSeq(name, ij[1] + 3, ij[2] - 1))
        /\ SubSeq(name, ij[2], ij[2] + 1) = <<"_", "b">>
        /\ IsDigits(SubSeq(name, ij[2] + 2, Len(name)))}

FullMatch(name) == Splits(name) # {}

\* The value of a text of decimal digits
RECURSIVE ValueOf(_)
ValueOf(ds) ==
    IF ds = << >> THEN 0
    ELSE 10 * ValueOf(SubSeq(ds, 1, Len(ds) - 1)) + DigitVal(ds[Len(ds)])

TripleOf(name) ==
    LET ij == CHOOSE x \in Splits(name) : TRUE
    IN  <<BigOfInt(ValueOf(SubSeq(name, 2, ij[1] - 1))),
          BigOfInt(ValueOf(SubSeq(name, ij[1] + 3, ij[2] - 1))),
          BigOfInt(ValueOf(SubSeq(name, ij[2] + 2, Len(name))))>>

\* The immediate child directories of root whose whole name matches, sorted by
\* name, each with its (p, ub, b).
MatchingDirs(root) ==
    LET names == Sorted({n \in Entries(PathKey(root, dirs, files), dirs, files) :
                            PathKey(Join(root, n), dirs, files) \in dirs /\ FullMatch(n)})
    IN  [k \in 1..Len(names) |->
            <<Join(root, names[k])>> \o TripleOf(names[k])]

\* C8 (as claimed): iter_variant_dirs yields, in sorted name order, exactly
\* the immediate child directories of the root whose whole name matches
\* p<digits>_ub<digits>_b<digits> with no extra character, each with its
\* parsed (p, ub, b); every other entry is skipped.
C8_ExactlyMatchingDirs ==
    pc = "return" => ret.out = MatchingDirs(arg)

\* The 19 columns the claim lists, in its order.
C9_Columns ==
    <<"variant_dir", "p", "ub", "b", "csv_path", "Dispatch_Id", "Kernel_Id",
      "Kernel_Name", "Start_Timestamp", "End_Timestamp", "time_us",
      "Workgroup_Size_X", "Workgroup_Size_Y", "Workgroup_Size_Z",
      "Grid_Size_X", "Grid_Size_Y", "Grid_Size_Z", "Total_Workgroups",
      "CU_Utilization_pct">>

\* C9 (as claimed): the header of every output file has 18 columns.
C9_HeaderHas18Columns ==
    \A o \in Outputs(files) : files[o].header # << >> => Len(files[o].header) = 18

\* The close of the output file o failed.
CloseFailedFor(o) ==
    \E i \in DOMAIN log :
        /\ log[i].msg = "ERROR: cannot write output file"
        /\ log[i].path = o
        /\ log[i].cause = "OSError: close"

\* The output file o is open: its header is still held by the file object.
StillOpen(o) == group # << >> /\ PathKey(group[2], dirs, files) = o

\* C9 (amended): the first row of every output file is the fixed-order header
\* of the 19 columns the claim lists; an output file is without a whole
\* first line only while it is open, when it is empty, or when its close
\* failed, which the log then reports.
C9_HeaderIs19Columns ==
    \A o \in Outputs(files) :
        \/ files[o].header = C9_Columns /\ Len(files[o].header) = 19
        \/ files[o] = EmptyOutput /\ StillOpen(o)
        \/ files[o].header = << >> /\ files[o].rows = << >> /\ CloseFailedFor(o)

\* An output file with its header and a data row.
C9_Witness ==
    \E o \in Outputs(files) : files[o].header = C9_Columns /\ files[o].rows # << >>

\* No error about the group of directory d or its output file was logged.
GroupClean(d) ==
    \A i \in DOMAIN log :
        (log[i].msg \in {"ERROR: failed counting occurrences in", "ERROR: processing",
                         "ERROR: cannot write output file"})
            => Dirname(log[i].path) # d

\* The source file path and the fields of the trace row a record was made from.
KeyOf(rec) == <<rec.csv_path, [c \in Range(TraceHeader) |-> rec[c]]>>

WindowOrNone(csv) ==
    IF MarkerRows(csv.rows) = {} THEN << >> ELSE HalfWindowOf(csv.rows)

RECURSIVE WindowsOf(_)
WindowsOf(paths) ==
    IF paths = << >> THEN << >>
    ELSE LET w == WindowOrNone(files[Head(paths)])
         IN  [i \in 1..Len(w) |->
                 <<Head(paths), [c \in Range(TraceHeader) |-> CsvText(w[i][c])]>>]
             \o WindowsOf(Tail(paths))

\* C10: when main has returned and no file or output error occurred in a
\* group, the data rows of the group's output file are exactly, for each trace
\* file of the group in sorted path order, one record per row of that file's
\* half-window in file order.
C10_RowsInDiscoveryOrder ==
    pc = "done" =>
        \A o \in Outputs(files) :
            GroupClean(Dirname(o))
                => [i \in 1..Len(files[o].rows) |-> KeyOf(files[o].rows[i])]
                   = WindowsOf(Sorted(TracesIn(Dirname(o))))

\* A run without any error in the first group, which has two trace files,
\* both with rows in the output and the second with a window shorter than
\* the file.
C10_Witness ==
    /\ pc = "done"
    /\ GroupClean(Dirname(SlotA))
    /\ SlotA \in DOMAIN files
    /\ SlotB \in DOMAIN files
    /\ RowsFrom(SlotA) # {}
    /\ RowsFrom(SlotB) # {}
    /\ Cardinality(RowsFrom(SlotB)) < Len(files[SlotB].rows)

====
